---- MODULE Spec2Model ----
(***************************************************************************)
(* SoundCloud Analyser - parser and metrics pipeline (src/app/parser.js).  *)
(*                                                                         *)
(* Text is a sequence of one-character strings.  A JavaScript number is a  *)
(* record [t, n, d]: t = "num" is the exact rational n/d in lowest terms   *)
(* (d > 0), t = "inf" is Infinity, t = "nan" is NaN and t = "null" is      *)
(* null.  Arithmetic is exact rational arithmetic; the binary rounding of  *)
(* IEEE doubles is not modelled.                                           *)
(***************************************************************************)
EXTENDS Integers, Sequences, FiniteSets, TLC

\* ------------------------------------------------------------------------
\* Bounds of the model
\* ------------------------------------------------------------------------
MaxRows == 2

\* the longest text given to the tokenizer called on its own
MaxTextLen == 5

\* ------------------------------------------------------------------------
\* Evaluation order
\* ------------------------------------------------------------------------
\* JavaScript evaluates the initializer of a const or let once and the
\* arguments of a call before the call.  With(v, F) is F applied to the
\* value of v, v being evaluated once: the const x = v of the code is
\* With(v, LAMBDA x : ...).
With(v, F(_)) == CHOOSE r \in { F(x) : x \in { v } } : TRUE

\* ------------------------------------------------------------------------
\* JavaScript values
\* ------------------------------------------------------------------------
Abs(x) == IF x < 0 THEN -x ELSE x

RECURSIVE Gcd(_, _)
Gcd(a, b) == IF b = 0 THEN a ELSE Gcd(b, a % b)

Null == [t |-> "null", n |-> 0, d |-> 1]
Infinity == [t |-> "inf", n |-> 1, d |-> 1]
NaN == [t |-> "nan", n |-> 0, d |-> 1]

\* the finite number 1e22, which the integers of the model do not reach: it
\* stands for the numbers from 1e21 on, which String and toFixed write with
\* an exponent.  Only the formatting functions are applied to it.
Huge == [t |-> "huge", n |-> 22, d |-> 1]

\* the rational a/b (b # 0) in lowest terms
Rat(a, b) ==
  With(Gcd(Abs(a), Abs(b)), LAMBDA g :
    IF b < 0
    THEN [t |-> "num", n |-> (-a) \div g, d |-> (-b) \div g]
    ELSE [t |-> "num", n |-> a \div g, d |-> b \div g])

Num(i) == [t |-> "num", n |-> i, d |-> 1]

\* The doubles beyond the integers of the model, with the rounding of
\* their arithmetic.  A number of kind "dbl" is a double that is a
\* nonnegative multiple of 1/8, given exactly in two limbs: its value is
\* (n * Limb + d) / 8 with 0 <= d < Limb.  The sums, the differences of a
\* larger and a smaller number, and the products and quotients with 1/4,
\* 1/2, 3/4 and 2 that median and quantiles form of integers are such
\* multiples; each is rounded to the 53 bits of a double, ties to even.
Limb == 2^28

Dbl(hi, lo) == [t |-> "dbl", n |-> hi, d |-> lo]

\* the number of hi high and lo low eighths, lo carried over into hi
Carry(hi, lo) == Dbl(hi + lo \div Limb, lo % Limb)

\* a nonnegative number whose denominator divides 8 as a "dbl"
AsDbl(x) == IF x.t = "dbl" THEN x ELSE Carry(0, x.n * (8 \div x.d))

\* how many of the lowest bits do not fit into the 53 bits of a double
\* when the high limb is hi
RECURSIVE LowBits(_)
LowBits(hi) == IF hi < 2^25 THEN 0 ELSE 1 + LowBits(hi \div 2)

\* the double nearest to the exact value x, the even one of two nearest
RoundDbl(x) ==
  With(2^LowBits(x.n), LAMBDA unit :
  With(x.d % unit, LAMBDA rest :
  With(x.d - rest, LAMBDA kept :
    IF 2 * rest > unit \/ (2 * rest = unit /\ (kept \div unit) % 2 = 1)
    THEN Carry(x.n, kept + unit)
    ELSE Dbl(x.n, kept))))

DblAdd(x, y) == RoundDbl(Carry(x.n + y.n, x.d + y.d))

\* x - y for x >= y
DblSub(x, y) ==
  IF x.d >= y.d
  THEN RoundDbl(Dbl(x.n - y.n, x.d - y.d))
  ELSE RoundDbl(Dbl(x.n - y.n - 1, x.d + Limb - y.d))

\* x * k / m for small k and m, the exact value being a multiple of 1/8
DblScale(x, k, m) ==
  With(Carry(x.n * k, x.d * k), LAMBDA p :
    RoundDbl(Dbl(p.n \div m, ((p.n % m) * Limb + p.d) \div m)))

DblLt(x, y) == x.n < y.n \/ (x.n = y.n /\ x.d < y.d)

\* one of the operands is a "dbl"
AnyDbl(x, y) == x.t = "dbl" \/ y.t = "dbl"

\* Number.isFinite(v)
IsFinite(v) == v.t \in {"num", "huge", "dbl"}

\* ToNumber(v) for the operands of <, >, +, /: null converts to 0
ToNum(v) == IF v.t = "null" THEN Num(0) ELSE v

\* a + b, a - b, a * b, a / b on JavaScript numbers (null operands are 0)
Add(a, b) ==
  With(ToNum(a), LAMBDA x : With(ToNum(b), LAMBDA y :
    IF x.t = "nan" \/ y.t = "nan" THEN NaN
    ELSE IF x.t = "inf" \/ y.t = "inf" THEN Infinity
    ELSE IF AnyDbl(x, y) THEN DblAdd(AsDbl(x), AsDbl(y))
    ELSE Rat(x.n * y.d + y.n * x.d, x.d * y.d)))

Sub(a, b) ==
  With(ToNum(a), LAMBDA x : With(ToNum(b), LAMBDA y :
    IF x.t \notin {"num", "dbl"} \/ y.t \notin {"num", "dbl"} THEN NaN
    ELSE IF AnyDbl(x, y) THEN DblSub(AsDbl(x), AsDbl(y))
    ELSE Rat(x.n * y.d - y.n * x.d, x.d * y.d)))

Mul(a, b) ==
  With(ToNum(a), LAMBDA x : With(ToNum(b), LAMBDA y :
    IF x.t \notin {"num", "dbl"} \/ y.t \notin {"num", "dbl"} THEN NaN
    ELSE IF x.t = "dbl" THEN DblScale(x, y.n, y.d)
    ELSE IF y.t = "dbl" THEN DblScale(y, x.n, x.d)
    ELSE Rat(x.n * y.n, x.d * y.d)))

Div(a, b) ==
  With(ToNum(a), LAMBDA x : With(ToNum(b), LAMBDA y :
    IF x.t \notin {"num", "dbl"} \/ y.t # "num" THEN NaN
    ELSE IF x.t = "dbl" /\ y.n # 0 THEN DblScale(x, y.d, y.n)
    ELSE IF y.n = 0
         THEN (IF x.n = 0 THEN NaN ELSE Infinity)
         ELSE Rat(x.n * y.d, x.d * y.n)))

\* a < b, a <= b, a > b, a >= b: every comparison with NaN is false
Lt(a, b) ==
  With(ToNum(a), LAMBDA x : With(ToNum(b), LAMBDA y :
    /\ x.t # "nan" /\ y.t # "nan"
    /\ x.t # "inf"
    /\ \/ y.t = "inf"
       \/ AnyDbl(x, y) /\ DblLt(AsDbl(x), AsDbl(y))
       \/ ~AnyDbl(x, y) /\ x.n * y.d < y.n * x.d))

Le(a, b) ==
  With(ToNum(a), LAMBDA x : With(ToNum(b), LAMBDA y :
    /\ x.t # "nan" /\ y.t # "nan"
    /\ \/ y.t = "inf"
       \/ x.t # "inf" /\ AnyDbl(x, y) /\ ~DblLt(AsDbl(y), AsDbl(x))
       \/ x.t = "num" /\ ~AnyDbl(x, y) /\ x.n * y.d <= y.n * x.d))

Gt(a, b) == Lt(b, a)

Ge(a, b) == Le(b, a)

\* a === 0 (strict equality: null is not 0)
IsZero(a) == a.t = "num" /\ a.n = 0

\* Math.floor(x) and Math.round(x) of a finite number: round is floor(x + 1/2)
Floor(x) == With(x, LAMBDA v : Num(v.n \div v.d))

\* Math.round cutting the fraction off
Round_floor(x) == With(x, LAMBDA v : Num(v.n \div v.d))

Round(x) == With(x, LAMBDA v : Num((2 * v.n + v.d) \div (2 * v.d)))

\* ------------------------------------------------------------------------
\* Strings: sequences of one-character strings
\* ------------------------------------------------------------------------
UpperLetters ==
  << "A", "B", "C", "D", "E", "F", "G", "H", "I", "J", "K", "L", "M",
     "N", "O", "P", "Q", "R", "S", "T", "U", "V", "W", "X", "Y", "Z" >>

LowerLetters ==
  << "a", "b", "c", "d", "e", "f", "g", "h", "i", "j", "k", "l", "m",
     "n", "o", "p", "q", "r", "s", "t", "u", "v", "w", "x", "y", "z" >>

Digits == << "0", "1", "2", "3", "4", "5", "6", "7", "8", "9" >>

IsDigit(c) == \E i \in 1..10 : Digits[i] = c

DigitVal(c) == (CHOOSE i \in 1..10 : Digits[i] = c) - 1

\* the white space String.prototype.trim and the regular expression \s remove
IsSpace(c) == c \in {" ", "\t", "\n", "\r"}

LowerChar(c) ==
  IF \E i \in 1..26 : UpperLetters[i] = c
  THEN LowerLetters[CHOOSE i \in 1..26 : UpperLetters[i] = c]
  ELSE c

\* String.prototype.toLowerCase
ToLowerCase(s) == [i \in 1..Len(s) |-> LowerChar(s[i])]

RECURSIVE TrimStart(_)
TrimStart(s) ==
  IF s # << >> /\ IsSpace(Head(s)) THEN TrimStart(Tail(s)) ELSE s

RECURSIVE TrimEnd(_)
TrimEnd(s) ==
  IF s # << >> /\ IsSpace(s[Len(s)])
  THEN TrimEnd(SubSeq(s, 1, Len(s) - 1))
  ELSE s

\* String.prototype.trim
Trim(s) == With(s, LAMBDA v : With(TrimStart(v), LAMBDA u : TrimEnd(u)))

\* the concatenation of the strings of a sequence, arr.join(sep)
RECURSIVE Join(_, _)
Join(arr, sep) ==
  IF arr = << >> THEN << >>
  ELSE IF Len(arr) = 1 THEN arr[1]
  ELSE arr[1] \o sep \o Join(Tail(arr), sep)

\* s.replace(/c/g, by): every occurrence of the character c replaced by by
RECURSIVE ReplaceAll(_, _, _)
ReplaceAll(s, c, by) ==
  IF s = << >> THEN << >>
  ELSE (IF Head(s) = c THEN by ELSE << Head(s) >>) \o ReplaceAll(Tail(s), c, by)

\* ------------------------------------------------------------------------
\* Header and blank rows
\* ------------------------------------------------------------------------
CANONICAL_HEADERS ==
  << << "t", "r", "a", "c", "k" >>,
     << "p", "o", "s", "t", "e", "d" >>,
     << "l", "i", "k", "e", "s" >>,
     << "r", "e", "p", "o", "s", "t", "s" >>,
     << "p", "l", "a", "y", "s" >>,
     << "c", "o", "m", "m", "e", "n", "t", "s" >> >>

\* isHeaderRow comparing the fields without trimming them
isHeaderRow_noTrim(fields) ==
  With(fields, LAMBDA f :
    IF Len(f) < 6 THEN FALSE
    ELSE \A i \in 1..6 : ToLowerCase(f[i]) = CANONICAL_HEADERS[i])

isHeaderRow(fields) ==
  With(fields, LAMBDA f :
    IF Len(f) < 6 THEN FALSE
    ELSE \A i \in 1..6 :
           With(Trim(f[i]), LAMBDA t : ToLowerCase(t) = CANONICAL_HEADERS[i]))

allEmpty(fields) ==
  With(fields, LAMBDA f : \A i \in 1..Len(f) : Trim(f[i]) = << >>)

\* ------------------------------------------------------------------------
\* parseCSV: the tokenizer
\* ------------------------------------------------------------------------
\* the iteration closing the quotes at every quote read inside quotes
parseCSVStep_noEscape(text, i, st) ==
  LET c == text[i] IN
  IF st.skip THEN [st EXCEPT !.skip = FALSE]
  ELSE IF st.inQuotes
  THEN IF c = "\""
       THEN [st EXCEPT !.inQuotes = FALSE]
       ELSE [st EXCEPT !.field = Append(st.field, c)]
  ELSE IF c = "\""
       THEN [st EXCEPT !.inQuotes = TRUE]
       ELSE IF c = ","
       THEN [st EXCEPT !.row = Append(st.row, st.field), !.field = << >>]
       ELSE IF c = "\r"
       THEN st
       ELSE IF c = "\n"
       THEN [st EXCEPT !.rows = Append(st.rows, Append(st.row, st.field)),
                       !.row = << >>, !.field = << >>]
       ELSE [st EXCEPT !.field = Append(st.field, c)]

\* the iteration keeping a carriage return outside quotes as content
parseCSVStep_keepsCR(text, i, st) ==
  LET c == text[i] IN
  IF st.skip THEN [st EXCEPT !.skip = FALSE]
  ELSE IF st.inQuotes
  THEN IF c = "\""
       THEN IF i + 1 <= Len(text) /\ text[i + 1] = "\""
            THEN [st EXCEPT !.field = Append(st.field, "\""), !.skip = TRUE]
            ELSE [st EXCEPT !.inQuotes = FALSE]
       ELSE [st EXCEPT !.field = Append(st.field, c)]
  ELSE IF c = "\""
       THEN [st EXCEPT !.inQuotes = TRUE]
       ELSE IF c = ","
       THEN [st EXCEPT !.row = Append(st.row, st.field), !.field = << >>]
       ELSE IF c = "\r"
       THEN [st EXCEPT !.field = Append(st.field, c)]
       ELSE IF c = "\n"
       THEN [st EXCEPT !.rows = Append(st.rows, Append(st.row, st.field)),
                       !.row = << >>, !.field = << >>]
       ELSE [st EXCEPT !.field = Append(st.field, c)]

\* one iteration of the loop over text[i] (i counted from 1) on the loop
\* state st; st.skip says that text[i] was already consumed by the i++ of
\* the escape branch
parseCSVStep(text, i, st) ==
  LET c == text[i] IN
  IF st.skip THEN [st EXCEPT !.skip = FALSE]
  ELSE IF st.inQuotes
  THEN IF c = "\""
       THEN IF i + 1 <= Len(text) /\ text[i + 1] = "\""
            THEN [st EXCEPT !.field = Append(st.field, "\""), !.skip = TRUE]
            ELSE [st EXCEPT !.inQuotes = FALSE]
       ELSE [st EXCEPT !.field = Append(st.field, c)]
  ELSE IF c = "\""
       THEN [st EXCEPT !.inQuotes = TRUE]
       ELSE IF c = ","
       THEN [st EXCEPT !.row = Append(st.row, st.field), !.field = << >>]
       ELSE IF c = "\r"
       THEN st
       ELSE IF c = "\n"
       THEN [st EXCEPT !.rows = Append(st.rows, Append(st.row, st.field)),
                       !.row = << >>, !.field = << >>]
       ELSE [st EXCEPT !.field = Append(st.field, c)]

\* the iterations lo..hi of the loop, in order, from the loop state st
RECURSIVE parseCSVLoop(_, _, _, _)
parseCSVLoop(text, lo, hi, st) ==
  IF lo > hi THEN st
  ELSE IF lo = hi THEN parseCSVStep(text, lo, st)
  ELSE With(parseCSVLoop(text, lo, (lo + hi) \div 2, st), LAMBDA left :
         parseCSVLoop(text, ((lo + hi) \div 2) + 1, hi, left))

\* parseCSV keeping the last row whatever it is
parseCSV_noPop(text) ==
  With(parseCSVLoop(text, 1, Len(text),
                    [rows |-> << >>, row |-> << >>, field |-> << >>,
                     inQuotes |-> FALSE, skip |-> FALSE]), LAMBDA st :
  With(Append(st.rows, Append(st.row, st.field)), LAMBDA rows :
    rows))

parseCSV(text) ==
  With(parseCSVLoop(text, 1, Len(text),
                    [rows |-> << >>, row |-> << >>, field |-> << >>,
                     inQuotes |-> FALSE, skip |-> FALSE]), LAMBDA st :
  With(Append(st.rows, Append(st.row, st.field)), LAMBDA rows :
    IF Len(rows) > 0 /\ Len(rows[Len(rows)]) = 1 /\ rows[Len(rows)][1] = << >>
    THEN SubSeq(rows, 1, Len(rows) - 1)
    ELSE rows))

sanitizeRow(arr) ==
  With(arr, LAMBDA a : [i \in 1..6 |-> IF i <= Len(a) THEN a[i] ELSE << >>])

\* ------------------------------------------------------------------------
\* parseNumber
\* ------------------------------------------------------------------------
RECURSIVE Pow10(_)
Pow10(k) == IF k = 0 THEN 1 ELSE 10 * Pow10(k - 1)

AllDigits(s) == \A i \in 1..Len(s) : IsDigit(s[i])

\* the value of a string of decimal digits (0 for the empty string)
RECURSIVE DigitsValue(_)
DigitsValue(s) ==
  IF s = << >> THEN 0
  ELSE 10 * DigitsValue(SubSeq(s, 1, Len(s) - 1)) + DigitVal(s[Len(s)])

\* the position of the first "." of s, or 0
DotPos(s) ==
  IF \E i \in 1..Len(s) : s[i] = "."
  THEN CHOOSE i \in 1..Len(s) : s[i] = "." /\ \A j \in 1..(i - 1) : s[j] # "."
  ELSE 0

\* the value of intPart [ "." fracPart ], both strings of digits
DecimalValue(ip, fp) ==
  With(Pow10(Len(fp)), LAMBDA scale :
    Rat(DigitsValue(ip) * scale + DigitsValue(fp), scale))

Negate(x) == With(x, LAMBDA v : IF v.t = "num" THEN Rat(-v.n, v.d) ELSE v)

\* s matches -?\d+(\.\d+)? , the numeric part of the k-suffix pattern
IsKNumber(s) ==
  With(IF s # << >> /\ Head(s) = "-" THEN Tail(s) ELSE s, LAMBDA u :
  With(DotPos(u), LAMBDA p :
    IF p = 0
    THEN u # << >> /\ AllDigits(u)
    ELSE /\ p > 1 /\ p < Len(u)
         /\ AllDigits(SubSeq(u, 1, p - 1))
         /\ AllDigits(SubSeq(u, p + 1, Len(u)))))

\* parseFloat of a string that matches -?\d+(\.\d+)?
parseFloat(s) ==
  With(IF Head(s) = "-" THEN Tail(s) ELSE s, LAMBDA u :
  With(DotPos(u), LAMBDA p :
  With(IF p = 0
       THEN DecimalValue(u, << >>)
       ELSE DecimalValue(SubSeq(u, 1, p - 1), SubSeq(u, p + 1, Len(u))),
       LAMBDA x :
    IF Head(s) = "-" THEN Negate(x) ELSE x)))

\* the value of the digit c in a radix up to 16, or 16 when c is no digit
RadixDigit(c) ==
  With(LowerChar(c), LAMBDA l :
    IF IsDigit(l) THEN DigitVal(l)
    ELSE IF \E k \in 1..6 : LowerLetters[k] = l
         THEN 9 + (CHOOSE k \in 1..6 : LowerLetters[k] = l)
         ELSE 16)

\* s is a non-empty string of digits of the radix
AllRadixDigits(s, radix) ==
  s # << >> /\ \A i \in 1..Len(s) : RadixDigit(s[i]) < radix

RECURSIVE RadixValue(_, _)
RadixValue(s, radix) ==
  IF s = << >> THEN 0
  ELSE radix * RadixValue(SubSeq(s, 1, Len(s) - 1), radix) + RadixDigit(s[Len(s)])

\* the radix of the prefix 0x, 0o or 0b of w (either case), or 0
PrefixRadix(w) ==
  IF Len(w) >= 2 /\ w[1] = "0"
  THEN (IF LowerChar(w[2]) = "x" THEN 16
        ELSE IF LowerChar(w[2]) = "o" THEN 8
        ELSE IF LowerChar(w[2]) = "b" THEN 2
        ELSE 0)
  ELSE 0

\* the position of the first e or E of s, or 0
ExponentPos(s) ==
  IF \E i \in 1..Len(s) : LowerChar(s[i]) = "e"
  THEN CHOOSE i \in 1..Len(s) :
         LowerChar(s[i]) = "e" /\ \A j \in 1..(i - 1) : LowerChar(s[j]) # "e"
  ELSE 0

\* x * 10^k for an integer k
Scale10(x, k) ==
  IF k >= 0 THEN Rat(x.n * Pow10(k), x.d) ELSE Rat(x.n, x.d * Pow10(-k))

\* the value of an unsigned decimal literal: digits, digits., .digits or
\* digits.digits, then an optional exponent e or E, optional sign, digits;
\* NaN when u is no such literal
DecimalLiteral(u) ==
  With(ExponentPos(u), LAMBDA e :
  With(IF e = 0 THEN u ELSE SubSeq(u, 1, e - 1), LAMBDA mant :
  With(IF e = 0 THEN << >> ELSE SubSeq(u, e + 1, Len(u)), LAMBDA ex :
  With(IF ex # << >> /\ Head(ex) \in {"-", "+"} THEN Tail(ex) ELSE ex, LAMBDA exDigits :
  With(DotPos(mant), LAMBDA p :
  With(IF p = 0 THEN mant ELSE SubSeq(mant, 1, p - 1), LAMBDA ip :
  With(IF p = 0 THEN << >> ELSE SubSeq(mant, p + 1, Len(mant)), LAMBDA fp :
    IF /\ AllDigits(ip) /\ AllDigits(fp) /\ Len(ip) + Len(fp) > 0
       /\ (e = 0 \/ (exDigits # << >> /\ AllDigits(exDigits)))
    THEN Scale10(DecimalValue(ip, fp),
                 IF e # 0 /\ Head(ex) = "-"
                 THEN -DigitsValue(exDigits)
                 ELSE DigitsValue(exDigits))
    ELSE NaN)))))))

\* Number(s): white space is trimmed; the empty string is 0; a literal
\* with the prefix 0x, 0o or 0b is its value; the word Infinity, signed or
\* not, is infinite (parseNumber only asks whether the number is finite, so
\* the sign of the infinity is not kept); a signed decimal literal is its
\* value; anything else is NaN.  Values are exact: a literal beyond the
\* range of a double is not among the texts drawn.
ToNumber(s) ==
  With(Trim(s), LAMBDA w :
  With(PrefixRadix(w), LAMBDA radix :
  With(IF w # << >> /\ Head(w) \in {"-", "+"} THEN Tail(w) ELSE w, LAMBDA u :
    IF w = << >> THEN Num(0)
    ELSE IF radix # 0
    THEN (IF AllRadixDigits(SubSeq(w, 3, Len(w)), radix)
          THEN Num(RadixValue(SubSeq(w, 3, Len(w)), radix))
          ELSE NaN)
    ELSE IF u = << "I", "n", "f", "i", "n", "i", "t", "y" >> THEN Infinity
    ELSE IF Head(w) = "-" THEN Negate(DecimalLiteral(u))
    ELSE DecimalLiteral(u))))

\* the match of /^(-?\d+(\.\d+)?)\s*[kK]$/ : the captured number, or << >>
\* when the string does not match
KMatch(v) ==
  IF v # << >> /\ v[Len(v)] \in {"k", "K"}
  THEN With(TrimEnd(SubSeq(v, 1, Len(v) - 1)), LAMBDA m :
         IF IsKNumber(m) THEN m ELSE << >>)
  ELSE << >>

\* the "missing" exits returning 0 without pushing the field name
MissingNumber_noFlag(missingAsZero, quality, fieldName) ==
  IF ~missingAsZero
  THEN [value |-> Null, quality |-> quality]
  ELSE [value |-> Num(0), quality |-> quality]

\* the three "missing" exits of parseNumber: null, or 0 with the field
\* name pushed on quality.invalid_fields
MissingNumber(missingAsZero, quality, fieldName) ==
  IF ~missingAsZero
  THEN [value |-> Null, quality |-> quality]
  ELSE [value |-> Num(0), quality |-> Append(quality, fieldName)]

\* parseNumber returning a plain number without Math.round
parseNumber_noRound(value, missingAsZero, quality, fieldName) ==
  With(Trim(value), LAMBDA t :
  With(ReplaceAll(t, ",", << >>), LAMBDA v :
  With(KMatch(v), LAMBDA kMatch :
  With(ToNumber(v), LAMBDA num :
    IF t = << >>
    THEN MissingNumber(missingAsZero, quality, fieldName)
    ELSE IF kMatch # << >>
    THEN [value |-> Round(Mul(parseFloat(kMatch), Num(1000))), quality |-> quality]
    ELSE IF IsFinite(num)
    THEN [value |-> num, quality |-> quality]
    ELSE MissingNumber(missingAsZero, quality, fieldName)))))

\* parseNumber(value, missingAsZero, quality, fieldName): the number
\* returned and quality.invalid_fields after the call.  value is always a
\* string here (sanitizeRow), so the null/undefined exit is not taken, and
\* the number a k-suffix match captures is always finite.
parseNumber(value, missingAsZero, quality, fieldName) ==
  With(Trim(value), LAMBDA t :
  With(ReplaceAll(t, ",", << >>), LAMBDA v :
  With(KMatch(v), LAMBDA kMatch :
  With(ToNumber(v), LAMBDA num :
    IF t = << >>
    THEN MissingNumber(missingAsZero, quality, fieldName)
    ELSE IF kMatch # << >>
    THEN [value |-> Round(Mul(parseFloat(kMatch), Num(1000))), quality |-> quality]
    ELSE IF IsFinite(num)
    THEN [value |-> Round(num), quality |-> quality]
    ELSE MissingNumber(missingAsZero, quality, fieldName)))))

\* ------------------------------------------------------------------------
\* Number to string
\* ------------------------------------------------------------------------
\* the decimal digits of a natural number
RECURSIVE NatToString(_)
NatToString(k) ==
  IF k < 10 THEN << Digits[k + 1] >>
  ELSE Append(NatToString(k \div 10), Digits[(k % 10) + 1])

\* the decimal digits of k, left-padded with zeros to at least w characters
RECURSIVE PadZero(_, _)
PadZero(k, w) ==
  With(NatToString(k), LAMBDA str :
    IF Len(str) >= w THEN str ELSE << "0" >> \o PadZero(k, w - 1))

\* the first k digits after the decimal point of r/d, 0 <= r < d
RECURSIVE FractionDigits(_, _, _)
FractionDigits(r, d, k) ==
  IF k = 0 \/ r = 0 THEN << >>
  ELSE << Digits[((10 * r) \div d) + 1] >> \o FractionDigits((10 * r) % d, d, k - 1)

\* the significant fraction digits String(v) prints for a double
FractionPrecision == 16

\* String(1e22) and (1e22).toFixed(2): from 1e21 on both write the
\* shortest digits with an exponent
ExponentText(v) == << "1", "e", "+" >> \o NatToString(v.n)

\* String(v) of a number: "Infinity", "NaN", "null", an integer in decimal
\* digits, or a decimal fraction (cut after FractionPrecision digits where
\* JavaScript prints the shortest digits that identify the double)
NumberToString(v) ==
  IF v.t = "inf" THEN << "I", "n", "f", "i", "n", "i", "t", "y" >>
  ELSE IF v.t = "huge" THEN ExponentText(v)
  ELSE IF v.t = "nan" THEN << "N", "a", "N" >>
  ELSE IF v.t = "null" THEN << "n", "u", "l", "l" >>
  ELSE With(FractionDigits(Abs(v.n) % v.d, v.d, FractionPrecision), LAMBDA frac :
         (IF v.n < 0 THEN << "-" >> ELSE << >>)
         \o NatToString(Abs(v.n) \div v.d)
         \o (IF frac = << >> THEN << >> ELSE << "." >> \o frac))

\* ------------------------------------------------------------------------
\* parseRelativeDate
\* ------------------------------------------------------------------------
\* the words of s: its maximal runs of characters that are not white space
RECURSIVE Words(_, _, _)
Words(s, i, cur) ==
  IF i > Len(s)
  THEN (IF cur = << >> THEN << >> ELSE << cur >>)
  ELSE IF IsSpace(s[i])
       THEN (IF cur = << >> THEN << >> ELSE << cur >>) \o Words(s, i + 1, << >>)
       ELSE Words(s, i + 1, Append(cur, s[i]))

DayUnits == { << "d", "a", "y" >>, << "d", "a", "y", "s" >> }

WeekUnits == { << "w", "e", "e", "k" >>, << "w", "e", "e", "k", "s" >> }

MonthUnits == { << "m", "o", "n", "t", "h" >>, << "m", "o", "n", "t", "h", "s" >> }

YearUnits == { << "y", "e", "a", "r" >>, << "y", "e", "a", "r", "s" >> }

\* the calendar date <<year, month, day>> of a day number counted from
\* 1970-01-01 (proleptic Gregorian calendar)
CivilFromDays(z0) ==
  With(z0 + 719468, LAMBDA z :
  With(z \div 146097, LAMBDA era :
  With(z - era * 146097, LAMBDA doe :
  With((doe - (doe \div 1460) + (doe \div 36524) - (doe \div 146096)) \div 365,
       LAMBDA yoe :
  With(doe - (365 * yoe + (yoe \div 4) - (yoe \div 100)), LAMBDA doy :
  With((5 * doy + 2) \div 153, LAMBDA mp :
  With(IF mp < 10 THEN mp + 3 ELSE mp - 9, LAMBDA m :
    << yoe + era * 400 + (IF m <= 2 THEN 1 ELSE 0),
       m,
       doy - ((153 * mp + 2) \div 5) + 1 >>)))))))

\* the year of toISOString: four digits, or a sign and six digits for a
\* year before 0 or after 9999
IsoYear(y) ==
  IF y < 0 THEN << "-" >> \o PadZero(-y, 6)
  ELSE IF y > 9999 THEN << "+" >> \o PadZero(y, 6)
  ELSE PadZero(y, 4)

\* toISOString().slice(0, 10) of the UTC midnight of a calendar date
IsoDate(dayNo) ==
  With(CivilFromDays(dayNo), LAMBDA c :
    SubSeq(IsoYear(c[1]) \o << "-" >> \o PadZero(c[2], 2) \o << "-" >> \o PadZero(c[3], 2),
           1, 10))

\* the calendar day of the clock reading in UTC
LocalDay_utc(now) == now.utcMinutes \div 1440

\* the local calendar day of the clock reading now: now.utcMinutes is the
\* instant in minutes since the epoch, now.tz the minutes local time is
\* ahead of UTC
LocalDay(now) == (now.utcMinutes + now.tz) \div 1440

\* a Date holds an instant at most 100,000,000 days from the epoch; beyond
\* that setDate leaves an invalid Date, whose toISOString throws RangeError.
\* The instant is days whole days before the clock reading now.
ValidInstant(now, days) ==
  With((now.utcMinutes \div 1440) - days, LAMBDA day :
    /\ day >= -100000000
    /\ (day < 100000000 \/ (day = 100000000 /\ now.utcMinutes % 1440 = 0)))

\* parseRelativeDate(s) read at the clock value now.  iso is a string or
\* << >> for null; days is a number or Null; threw says that the call threw
\* RangeError instead of returning.
parseRelativeDate(s, now) ==
  With(Trim(s), LAMBDA t :
  With(Words(ToLowerCase(t), 1, << >>), LAMBDA w :
    IF s = << >>
       \/ ~(/\ Len(w) = 3
            /\ w[1] # << >> /\ AllDigits(w[1])
            /\ w[2] \in DayUnits \cup WeekUnits \cup MonthUnits \cup YearUnits
            /\ w[3] = << "a", "g", "o" >>)
    THEN [threw |-> FALSE, iso |-> << >>, days |-> Null]
    ELSE With(DigitsValue(w[1]), LAMBDA n :
         With(IF w[2] \in DayUnits THEN n
              ELSE IF w[2] \in WeekUnits THEN n * 7
              ELSE IF w[2] \in MonthUnits THEN n * 30
              ELSE n * 365, LAMBDA days :
           IF ValidInstant(now, days)
           THEN [threw |-> FALSE, iso |-> IsoDate(LocalDay(now) - days), days |-> Num(days)]
           ELSE [threw |-> TRUE, iso |-> << >>, days |-> Num(days)]))))

\* ------------------------------------------------------------------------
\* median, quantiles, computeCategory
\* ------------------------------------------------------------------------
\* values.filter(Number.isFinite)
RECURSIVE FilterFinite(_)
FilterFinite(values) ==
  IF values = << >> THEN << >>
  ELSE (IF IsFinite(Head(values)) THEN << Head(values) >> ELSE << >>)
       \o FilterFinite(Tail(values))

\* x put in its place in the ascending sequence arr (after its equals)
RECURSIVE InsertSorted(_, _)
InsertSorted(arr, x) ==
  IF arr = << >> THEN << x >>
  ELSE IF Lt(x, Head(arr)) THEN << x >> \o arr
  ELSE << Head(arr) >> \o InsertSorted(Tail(arr), x)

\* values.slice().sort((a, b) => a - b) of finite numbers
RECURSIVE SortAscending(_)
SortAscending(values) ==
  IF values = << >> THEN << >>
  ELSE With(SortAscending(SubSeq(values, 1, Len(values) - 1)), LAMBDA arr :
         InsertSorted(arr, values[Len(values)]))

\* the median taking the upper middle value for an even count too
median_upperMiddle(values) ==
  With(FilterFinite(values), LAMBDA finite :
  With(SortAscending(finite), LAMBDA arr :
    IF Len(arr) = 0 THEN Null ELSE arr[Len(arr) \div 2 + 1]))

median(values) ==
  With(FilterFinite(values), LAMBDA finite :
  With(SortAscending(finite), LAMBDA arr :
  With(Len(arr) \div 2, LAMBDA mid :
    IF Len(arr) = 0 THEN Null
    ELSE IF Len(arr) % 2 = 0
    THEN Div(Add(arr[mid], arr[mid + 1]), Num(2))
    ELSE arr[mid + 1])))

\* q(p) taking the value at the floor index, without interpolation
quantileAt_noInterpolation(arr, p) ==
  With(Mul(Num(Len(arr) - 1), p), LAMBDA idx :
  With(Floor(idx), LAMBDA lo : arr[lo.n + 1]))

\* the inner function q(p) of quantiles over the sorted array arr
quantileAt(arr, p) ==
  With(Mul(Num(Len(arr) - 1), p), LAMBDA idx :
  With(Floor(idx), LAMBDA lo :
  With(Negate(Floor(Negate(idx))), LAMBDA hi :
    IF lo = hi THEN arr[lo.n + 1]
    ELSE With(Sub(arr[hi.n + 1], arr[lo.n + 1]), LAMBDA step :
         With(Sub(idx, lo), LAMBDA part :
         With(Mul(step, part), LAMBDA rise :
           Add(arr[lo.n + 1], rise)))))))

\* quantiles with Q1 and Q3 exchanged
quantiles_swapped(values) ==
  With(FilterFinite(values), LAMBDA finite :
  With(SortAscending(finite), LAMBDA arr :
    IF Len(arr) = 0 THEN [Q1 |-> Null, Q2 |-> Null, Q3 |-> Null]
    ELSE [Q1 |-> quantileAt(arr, Rat(3, 4)),
          Q2 |-> quantileAt(arr, Rat(1, 2)),
          Q3 |-> quantileAt(arr, Rat(1, 4))]))

quantiles(values) ==
  With(FilterFinite(values), LAMBDA finite :
  With(SortAscending(finite), LAMBDA arr :
    IF Len(arr) = 0 THEN [Q1 |-> Null, Q2 |-> Null, Q3 |-> Null]
    ELSE [Q1 |-> quantileAt(arr, Rat(1, 4)),
          Q2 |-> quantileAt(arr, Rat(1, 2)),
          Q3 |-> quantileAt(arr, Rat(3, 4))]))

\* computeCategory comparing with < where the code compares with <=
computeCategory_strict(plr, likes, thresholds) ==
  IF ~IsFinite(plr) THEN "Poor"
  ELSE IF IsZero(likes) THEN "Poor"
  ELSE IF thresholds.Q1 = Null THEN "Average"
  ELSE IF Lt(plr, thresholds.Q1) THEN "Excellent"
  ELSE IF Lt(plr, thresholds.Q2) THEN "Good"
  ELSE IF Lt(plr, thresholds.Q3) THEN "Average"
  ELSE "Poor"

\* computeCategory leaving the placeholder category on a non-finite ratio
computeCategory_keepsPlaceholder(plr, likes, thresholds) ==
  IF ~IsFinite(plr) THEN "Average"
  ELSE IF thresholds.Q1 = Null THEN "Average"
  ELSE IF Le(plr, thresholds.Q1) THEN "Excellent"
  ELSE IF Le(plr, thresholds.Q2) THEN "Good"
  ELSE IF Le(plr, thresholds.Q3) THEN "Average"
  ELSE "Poor"

\* computeCategory with the best and the worst category exchanged for the
\* ratios compared with the thresholds
computeCategory_swapped(plr, likes, thresholds) ==
  IF ~IsFinite(plr) THEN "Poor"
  ELSE IF IsZero(likes) THEN "Poor"
  ELSE IF thresholds.Q1 = Null THEN "Average"
  ELSE IF Le(plr, thresholds.Q1) THEN "Poor"
  ELSE IF Le(plr, thresholds.Q2) THEN "Good"
  ELSE IF Le(plr, thresholds.Q3) THEN "Average"
  ELSE "Excellent"

computeCategory(plr, likes, thresholds) ==
  IF ~IsFinite(plr) THEN "Poor"
  ELSE IF IsZero(likes) THEN "Poor"
  ELSE IF thresholds.Q1 = Null THEN "Average"
  ELSE IF Le(plr, thresholds.Q1) THEN "Excellent"
  ELSE IF Le(plr, thresholds.Q2) THEN "Good"
  ELSE IF Le(plr, thresholds.Q3) THEN "Average"
  ELSE "Poor"

\* ------------------------------------------------------------------------
\* processDataRows
\* ------------------------------------------------------------------------
\* the metrics block of the row loop
\* the ratio computed as likes / plays
playLikeRatio_inverted(likes, plays) ==
  IF IsZero(likes) /\ Gt(plays, Num(0)) THEN Infinity
  ELSE IF Gt(likes, Num(0)) /\ Ge(plays, Num(0)) THEN Div(likes, plays)
  ELSE Null

\* the ratio without the Infinity branch
playLikeRatio_noInfinity(likes, plays) ==
  IF Gt(likes, Num(0)) /\ Ge(plays, Num(0)) THEN Div(plays, likes)
  ELSE Null

playLikeRatio(likes, plays) ==
  IF IsZero(likes) /\ Gt(plays, Num(0)) THEN Infinity
  ELSE IF Gt(likes, Num(0)) /\ Ge(plays, Num(0)) THEN Div(plays, likes)
  ELSE Null

engagementRatePct_noReposts(likes, reposts, plays, comments) ==
  IF Gt(plays, Num(0))
  THEN With(Add(likes, comments), LAMBDA total :
       With(Div(total, plays), LAMBDA rate :
         Mul(rate, Num(100))))
  ELSE Num(0)

engagementRatePct(likes, reposts, plays, comments) ==
  IF Gt(plays, Num(0))
  THEN With(Add(likes, reposts), LAMBDA lr :
       With(Add(lr, comments), LAMBDA total :
       With(Div(total, plays), LAMBDA rate :
         Mul(rate, Num(100)))))
  ELSE Num(0)

likePct(likes, plays) ==
  IF Gt(plays, Num(0))
  THEN With(Div(likes, plays), LAMBDA share : Mul(share, Num(100)))
  ELSE Num(0)

playsPerDay(plays, days_since_upload) ==
  With(IF IsFinite(days_since_upload)
       THEN (IF Lt(days_since_upload, Num(1)) THEN Num(1) ELSE days_since_upload)
       ELSE Num(1), LAMBDA dsu :
    Div(plays, dsu))

\* one iteration of the row loop: << >> when the row is skipped, else the
\* record pushed on data (category is the placeholder), or threw when
\* parseRelativeDate threw
processRow(r, lineNo, options, now) ==
  With(sanitizeRow(r), LAMBDA row :
  With(Trim(row[1]), LAMBDA title :
    IF isHeaderRow(row) THEN [threw |-> FALSE, push |-> << >>]
    ELSE IF allEmpty(row) THEN [threw |-> FALSE, push |-> << >>]
    ELSE IF title = << >> THEN [threw |-> FALSE, push |-> << >>]
    ELSE
  With(parseRelativeDate(row[2], now), LAMBDA date :
    IF date.threw THEN [threw |-> TRUE, push |-> << >>]
    ELSE
  With(parseNumber(row[3], options.missingAsZero, << >>, "likes"), LAMBDA pl :
  With(parseNumber(row[4], options.missingAsZero, pl.quality, "reposts"), LAMBDA pr :
  With(parseNumber(row[5], options.missingAsZero, pr.quality, "plays"), LAMBDA pp :
  With(parseNumber(row[6], options.missingAsZero, pp.quality, "comments"), LAMBDA pc :
    [threw |-> FALSE, push |-> <<
       [ source_line |-> lineNo,
         track_raw |-> row[1],
         posted_raw |-> row[2],
         title |-> title,
         posted_iso |-> date.iso,
         days_since_upload |-> date.days,
         likes |-> pl.value,
         reposts |-> pr.value,
         plays |-> pp.value,
         comments |-> pc.value,
         play_like_ratio |-> playLikeRatio(pl.value, pp.value),
         engagement_rate_pct |->
           engagementRatePct(pl.value, pr.value, pp.value, pc.value),
         like_pct |-> likePct(pl.value, pp.value),
         plays_per_day |-> playsPerDay(pp.value, date.days),
         quality |-> IF ~Gt(pp.value, Num(0)) /\ options.showQuality
                     THEN Append(pc.quality, "plays_zero_for_rates")
                     ELSE pc.quality,
         category |-> "Average" ] >>])))))))

\* the row loop from row lineNo on, data being the records pushed so far:
\* the records pushed when the loop ends, or threw when an iteration threw
RECURSIVE processLoop(_, _, _, _, _)
processLoop(rows, lineNo, options, now, data) ==
  IF lineNo > Len(rows) THEN [threw |-> FALSE, data |-> data]
  ELSE With(processRow(rows[lineNo], lineNo, options, now), LAMBDA step :
         IF step.threw THEN [threw |-> TRUE, data |-> data]
         ELSE With(data \o step.push, LAMBDA pushed :
                processLoop(rows, lineNo + 1, options, now, pushed)))

\* the reduction that assigns where the code adds: the last number
Sum_lastOnly(values) ==
  IF values = << >> THEN Num(0) ELSE Add(Num(0), values[Len(values)])

\* the sum of the numbers of a sequence, from 0
RECURSIVE Sum(_)
Sum(values) ==
  IF values = << >> THEN Num(0)
  ELSE With(Sum(SubSeq(values, 1, Len(values) - 1)), LAMBDA acc :
         Add(acc, values[Len(values)]))

\* the mean without the guard for an empty list
avgEngagement_noGuard(data) ==
  With(FilterFinite([i \in 1..Len(data) |-> data[i].engagement_rate_pct]),
       LAMBDA vals :
    With(Sum(vals), LAMBDA total : Div(total, Num(Len(vals)))))

avgEngagement(data) ==
  With(FilterFinite([i \in 1..Len(data) |-> data[i].engagement_rate_pct]),
       LAMBDA vals :
    IF Len(vals) = 0 THEN Num(0)
    ELSE With(Sum(vals), LAMBDA total : Div(total, Num(Len(vals)))))

\* what the model holds for a Dataset where there is none: before a file
\* is loaded, and as the value of a call that threw (error names the
\* exception; a returned Dataset has error "none")
NoDataset ==
  [ error |-> "none",
    rows |-> << >>,
    totals |-> [plays |-> Null, likes |-> Null, reposts |-> Null, comments |-> Null],
    thresholds |-> [Q1 |-> Null, Q2 |-> Null, Q3 |-> Null],
    avgEngagement |-> Null,
    medianPLR |-> Null ]

processDataRows(rows, options, now) ==
  With(processLoop(rows, 1, options, now, << >>), LAMBDA loop :
    IF loop.threw THEN [NoDataset EXCEPT !.error = "RangeError"]
    ELSE
  With(loop.data, LAMBDA data :
  With(FilterFinite([i \in 1..Len(data) |-> data[i].play_like_ratio]),
       LAMBDA finitePLR :
  With(quantiles(finitePLR), LAMBDA thresholds :
    [ error |-> "none",
      rows |-> [i \in 1..Len(data) |->
                 [data[i] EXCEPT !.category =
                    computeCategory(data[i].play_like_ratio, data[i].likes, thresholds)]],
      totals |-> [ plays |-> Sum([i \in 1..Len(data) |-> data[i].plays]),
                   likes |-> Sum([i \in 1..Len(data) |-> data[i].likes]),
                   reposts |-> Sum([i \in 1..Len(data) |-> data[i].reposts]),
                   comments |-> Sum([i \in 1..Len(data) |-> data[i].comments]) ],
      thresholds |-> thresholds,
      avgEngagement |-> avgEngagement(data),
      medianPLR |-> median(finitePLR) ]))))

parseAndProcessCSV(text, options, now) ==
  With(parseCSV(text), LAMBDA rows : processDataRows(rows, options, now))

\* ------------------------------------------------------------------------
\* toCSV: the serializer
\* ------------------------------------------------------------------------
ExportHeader ==
  << << "T", "R", "A", "C", "K" >>,
     << "P", "O", "S", "T", "E", "D", "_", "I", "S", "O" >>,
     << "D", "A", "Y", "S" >>,
     << "P", "L", "A", "Y", "S" >>,
     << "L", "I", "K", "E", "S" >>,
     << "R", "E", "P", "O", "S", "T", "S" >>,
     << "C", "O", "M", "M", "E", "N", "T", "S" >>,
     << "P", "L", "A", "Y", "_", "L", "I", "K", "E", "_", "R", "A", "T", "I", "O" >>,
     << "E", "N", "G", "A", "G", "E", "M", "E", "N", "T", "_", "R", "A", "T", "E", "_", "P", "C", "T" >>,
     << "L", "I", "K", "E", "_", "P", "C", "T" >>,
     << "P", "L", "A", "Y", "S", "_", "P", "E", "R", "_", "D", "A", "Y" >>,
     << "C", "A", "T", "E", "G", "O", "R", "Y" >> >>

\* the characters of a category name
CategoryText(c) ==
  IF c = "Excellent" THEN << "E", "x", "c", "e", "l", "l", "e", "n", "t" >>
  ELSE IF c = "Good" THEN << "G", "o", "o", "d" >>
  ELSE IF c = "Average" THEN << "A", "v", "e", "r", "a", "g", "e" >>
  ELSE << "P", "o", "o", "r" >>

\* escapeCSV writing every text as it is
escapeCSV_bare(str) == str

escapeCSV(str) ==
  IF \E i \in 1..Len(str) : str[i] \in {"\"", ",", "\n"}
  THEN << "\"" >> \o ReplaceAll(str, "\"", << "\"", "\"" >>) \o << "\"" >>
  ELSE str

\* (Math.round(v * 100) / 100).toFixed(2)
round2(v) ==
  IF ~IsFinite(v) THEN << >>
  ELSE IF v.t = "huge" THEN ExponentText(v)
  ELSE With(Mul(v, Num(100)), LAMBDA scaled :
       With(Round(scaled).n, LAMBDA c :
         (IF c < 0 THEN << "-" >> ELSE << >>)
         \o NatToString(Abs(c) \div 100) \o << "." >> \o PadZero(Abs(c) % 100, 2)))

finiteOrEmpty(v) == IF ~IsFinite(v) THEN << >> ELSE NumberToString(v)

valueOrEmpty(v) == IF v = Null THEN << >> ELSE NumberToString(v)

\* the export line with the counts in the order of the input columns
exportCells_inputOrder(d) ==
  << escapeCSV(d.title),
     d.posted_iso,
     valueOrEmpty(d.days_since_upload),
     valueOrEmpty(d.likes),
     valueOrEmpty(d.reposts),
     valueOrEmpty(d.plays),
     valueOrEmpty(d.comments),
     finiteOrEmpty(d.play_like_ratio),
     round2(d.engagement_rate_pct),
     round2(d.like_pct),
     round2(d.plays_per_day),
     CategoryText(d.category) >>

\* the cells of the line toCSV writes for the record d
exportCells(d) ==
  << escapeCSV(d.title),
     d.posted_iso,
     valueOrEmpty(d.days_since_upload),
     valueOrEmpty(d.plays),
     valueOrEmpty(d.likes),
     valueOrEmpty(d.reposts),
     valueOrEmpty(d.comments),
     finiteOrEmpty(d.play_like_ratio),
     round2(d.engagement_rate_pct),
     round2(d.like_pct),
     round2(d.plays_per_day),
     CategoryText(d.category) >>

toCSV(dataset) ==
  With(<< Join(ExportHeader, << "," >>) >>
       \o [i \in 1..Len(dataset.rows) |->
             With(exportCells(dataset.rows[i]), LAMBDA cells :
               Join(cells, << "," >>))], LAMBDA lines :
    Join(lines, << "\n" >>))

\* ------------------------------------------------------------------------
\* The page (app.js): two closures on one document
\* ------------------------------------------------------------------------
\* the rank of a letter in the alphabet, whatever its case; 0 for others
CharRank(c) ==
  IF \E i \in 1..26 : LowerLetters[i] = LowerChar(c)
  THEN CHOOSE i \in 1..26 : LowerLetters[i] = LowerChar(c)
  ELSE 0

\* String.prototype.localeCompare on texts of letters: by the letters
\* first, a shorter text before its extensions, and for equal letters the
\* lower case before the upper case
RECURSIVE localeCompare(_, _)
localeCompare(s, t) ==
  IF s = << >> /\ t = << >> THEN 0
  ELSE IF s = << >> THEN -1
  ELSE IF t = << >> THEN 1
  ELSE IF CharRank(Head(s)) < CharRank(Head(t)) THEN -1
  ELSE IF CharRank(Head(s)) > CharRank(Head(t)) THEN 1
  ELSE With(localeCompare(Tail(s), Tail(t)), LAMBDA rest :
         IF rest # 0 \/ Head(s) = Head(t) THEN rest
         ELSE IF Head(s) = LowerChar(Head(s)) THEN -1 ELSE 1)

Sign(x) == IF x < 0 THEN -1 ELSE IF x > 0 THEN 1 ELSE 0

\* the order applySort of closure two gives the categories
CategoryOrder(c) ==
  IF c = "Excellent" THEN 1
  ELSE IF c = "Good" THEN 2
  ELSE IF c = "Average" THEN 3
  ELSE IF c = "Poor" THEN 4
  ELSE 5

\* the keys of the sortable columns whose values are strings
StringKeys == { "title" }

\* the comparator of applySort: negative when a comes before b.
\* byCategory: the special handling of the category column (closure two)
compareRows(a, b, sortState, byCategory) ==
  With(IF sortState.dir = "asc" THEN 1 ELSE -1, LAMBDA sign :
    IF sortState.key = "category"
    THEN (IF byCategory
          THEN sign * Sign(CategoryOrder(a.category) - CategoryOrder(b.category))
          ELSE sign * localeCompare(CategoryText(a.category), CategoryText(b.category)))
    ELSE IF sortState.key \in StringKeys
    THEN sign * localeCompare(a[sortState.key], b[sortState.key])
    ELSE
  With(ToNum(a[sortState.key]), LAMBDA na :
  With(ToNum(b[sortState.key]), LAMBDA nb :
    IF ~IsFinite(na) /\ ~IsFinite(nb) THEN 0
    ELSE IF ~IsFinite(na) THEN 1
    ELSE IF ~IsFinite(nb) THEN -1
    ELSE IF Lt(na, nb) THEN -sign
    ELSE IF Lt(nb, na) THEN sign
    ELSE 0)))

\* x put into the sorted rows after every row that does not come after it
RECURSIVE InsertRow(_, _, _, _)
InsertRow(rows, x, sortState, byCategory) ==
  IF rows = << >> THEN << x >>
  ELSE IF compareRows(x, Head(rows), sortState, byCategory) < 0 THEN << x >> \o rows
  ELSE << Head(rows) >> \o InsertRow(Tail(rows), x, sortState, byCategory)

\* Array.prototype.sort with the comparator of applySort (a stable sort)
RECURSIVE SortRows(_, _, _)
SortRows(rows, sortState, byCategory) ==
  IF rows = << >> THEN << >>
  ELSE With(SortRows(SubSeq(rows, 1, Len(rows) - 1), sortState, byCategory), LAMBDA sorted :
         InsertRow(sorted, rows[Len(rows)], sortState, byCategory))

\* String.prototype.includes
Includes(s, q) ==
  \E i \in 0..(Len(s) - Len(q)) : SubSeq(s, i + 1, i + Len(q)) = q

\* rows.filter(r => (r.title || '').toLowerCase().includes(q))
RECURSIVE FilterTitle(_, _)
FilterTitle(rows, q) ==
  IF rows = << >> THEN << >>
  ELSE (IF Includes(ToLowerCase(Head(rows).title), q) THEN << Head(rows) >> ELSE << >>)
       \o FilterTitle(Tail(rows), q)

\* the sort state after a click on the header of the column key
ClickedSort(sortState, key) ==
  IF sortState.key = key
  THEN [sortState EXCEPT !.dir = IF @ = "asc" THEN "desc" ELSE "asc"]
  ELSE [key |-> key, dir |-> "desc"]

\* ---- closure one (lines 1-631) ----
applySortOne(a) ==
  [a EXCEPT !.one.currentRows = SortRows(@, a.one.sortState, FALSE)]

applySearchOne(a) ==
  With(ToLowerCase(Trim(a.search)), LAMBDA q :
    IF a.one.dataset = << >> THEN [a EXCEPT !.one.currentRows = << >>]
    ELSE IF q = << >>
    THEN applySortOne([a EXCEPT !.one.currentRows = a.one.dataset[1].rows])
    ELSE applySortOne([a EXCEPT !.one.currentRows = FilterTitle(a.one.dataset[1].rows, q)]))

\* renderTable fills the table and wires the headers to its own closure
renderTableOne(a) == [a EXCEPT !.table = a.one.currentRows, !.onclick = "one"]

handleCSVText(a, text, options, now) ==
  With(parseAndProcessCSV(text, options, now), LAMBDA d :
    IF d.error # "none" THEN [a EXCEPT !.alerts = @ + 1]
    ELSE With(applySearchOne([a EXCEPT !.one.dataset = << d >>,
                                       !.one.currentRows = d.rows]), LAMBDA b :
         [renderTableOne(b) EXCEPT !.exportDisabled = (Len(d.rows) = 0)]))

doSearchOne(a) == renderTableOne(applySearchOne(a))

clickHeaderOne(a, key) ==
  renderTableOne(applySortOne([a EXCEPT !.one.sortState = ClickedSort(@, key)]))

doExportOne(a) ==
  IF a.one.dataset = << >> THEN a
  ELSE [a EXCEPT !.download.one = toCSV(a.one.dataset[1])]

\* ---- closure two (lines 632-1337) ----
\* the record with the name and colour of its dataset written on it
Tagged(r, ds) == [datasetName |-> ds.name, datasetColor |-> ds.color] @@ r

RECURSIVE VisibleRows(_)
VisibleRows(datasets) ==
  IF datasets = << >> THEN << >>
  ELSE (IF Head(datasets).visible THEN Head(datasets).data.rows ELSE << >>)
       \o VisibleRows(Tail(datasets))

applySortTwo_inPlace(a) ==
  [a EXCEPT !.two.currentRows = SortRows(@, a.two.sortState, TRUE),
            !.two.datasets =
              [i \in 1..Len(@) |->
                 [@[i] EXCEPT !.data.rows = SortRows(@, a.two.sortState, TRUE)]]]

applySortTwo(a) ==
  [a EXCEPT !.two.currentRows = SortRows(@, a.two.sortState, TRUE)]

applySearchTwo(a) ==
  With(ToLowerCase(Trim(a.search)), LAMBDA q :
    IF a.two.datasets = << >> THEN [a EXCEPT !.two.currentRows = << >>]
    ELSE
  With([i \in 1..Len(a.two.datasets) |->
          [a.two.datasets[i] EXCEPT !.data.rows =
             [j \in 1..Len(@) |-> Tagged(@[j], a.two.datasets[i])]]], LAMBDA copies :
  With(VisibleRows(copies), LAMBDA allRows :
    IF q = << >>
    THEN applySortTwo([a EXCEPT !.two.currentRows = allRows])
    ELSE applySortTwo([a EXCEPT !.two.currentRows = FilterTitle(allRows, q)]))))

\* updateCombinedData writes the name and colour on the records of the
\* visible datasets themselves, then applySearch rebuilds currentRows
updateCombinedData(a) ==
  With([i \in 1..Len(a.two.datasets) |->
          IF a.two.datasets[i].visible
          THEN [a.two.datasets[i] EXCEPT !.data.rows =
                  [j \in 1..Len(@) |-> Tagged(@[j], a.two.datasets[i])]]
          ELSE a.two.datasets[i]], LAMBDA written :
    applySearchTwo([a EXCEPT !.two.datasets = written,
                             !.two.currentRows = VisibleRows(written)]))

renderTableTwo(a) == [a EXCEPT !.table = a.two.currentRows, !.onclick = "two"]

handleSingleCSV_clearsFirst(a, text, filename, options, now) ==
  With(parseAndProcessCSV(text, options, now), LAMBDA data :
    IF data.error # "none"
    THEN [a EXCEPT !.alerts = @ + 1, !.two.currentRows = << >>]
    ELSE With(updateCombinedData(
                [a EXCEPT !.two.datasets =
                   Append(@, [name |-> filename, color |-> Len(@) % 10,
                              data |-> data, visible |-> TRUE])]), LAMBDA b :
         [renderTableTwo(b) EXCEPT !.exportDisabled = FALSE]))

handleSingleCSV(a, text, filename, options, now) ==
  With(parseAndProcessCSV(text, options, now), LAMBDA data :
    IF data.error # "none" THEN [a EXCEPT !.alerts = @ + 1]
    ELSE With(updateCombinedData(
                [a EXCEPT !.two.datasets =
                   Append(@, [name |-> filename, color |-> Len(@) % 10,
                              data |-> data, visible |-> TRUE])]), LAMBDA b :
         [renderTableTwo(b) EXCEPT !.exportDisabled = FALSE]))

doSearchTwo(a) == renderTableTwo(applySearchTwo(a))

clickHeaderTwo(a, key) ==
  renderTableTwo(applySortTwo([a EXCEPT !.two.sortState = ClickedSort(@, key)]))

\* the change handler of the checkbox of dataset i
toggleDataset(a, i) ==
  renderTableTwo(updateCombinedData([a EXCEPT !.two.datasets[i].visible = ~@]))

doExportTwo(a) ==
  IF a.two.datasets = << >> THEN a
  ELSE IF \A i \in 1..Len(a.two.datasets) : ~a.two.datasets[i].visible THEN a
  ELSE [a EXCEPT !.download.two =
          toCSV([rows |-> VisibleRows(a.two.datasets)])]

\* ------------------------------------------------------------------------
\* The inputs the model draws
\* ------------------------------------------------------------------------
\* one line of CSV text from its cells
Line(cells) == Join(cells, << "," >>)

\* header rows (exact, padded with white space and a carriage return, with
\* a seventh field), a blank row, an untitled row and a dated row whose
\* quoted title holds a comma, a quote and a newline
SpecialLines ==
  { << "T", "R", "A", "C", "K", ",", "P", "O", "S", "T", "E", "D", ",", "L", "I", "K", "E", "S", ",", "R", "E", "P", "O", "S", "T", "S", ",", "P", "L", "A", "Y", "S", ",", "C", "O", "M", "M", "E", "N", "T", "S" >>,
    << " ", "t", "r", "a", "c", "k", " ", ",", "p", "o", "s", "t", "e", "d", ",", "l", "i", "k", "e", "s", ",", "r", "e", "p", "o", "s", "t", "s", ",", "p", "l", "a", "y", "s", ",", "c", "o", "m", "m", "e", "n", "t", "s", "\r" >>,
    << "T", "r", "a", "c", "k", ",", "P", "o", "s", "t", "e", "d", ",", "L", "i", "k", "e", "s", ",", "R", "e", "p", "o", "s", "t", "s", ",", "P", "l", "a", "y", "s", ",", "C", "o", "m", "m", "e", "n", "t", "s", ",", "x" >>,
    << " ", ",", ",", ",", ",", "," >>,
    << ",", "1", " ", "d", "a", "y", " ", "a", "g", "o", ",", "1", ",", "1", ",", "2", ",", "1" >>,
    << "\"", "a", ",", "\"", "\"", "\n", "b", "\"", ",", "2", " ", "w", "e", "e", "k", "s", " ", "a", "g", "o", ",", "1", ",", "0", ",", "4", ",", "0" >> }

\* the likes and plays cells of the plain data rows
PlainCounts ==
  { << << "0" >>, << "0" >> >>,
    << << "0" >>, << "3" >> >>,
    << << "1" >>, << "3" >> >>,
    << << "2" >>, << "0" >> >>,
    << << "2" >>, << "1" >> >> }

PlainLines ==
  { Line(<< << "a" >>, << >>, lp[1], << "1" >>, lp[2], << "0" >> >>) :
      lp \in PlainCounts }

\* the raw texts of a count cell of a one-row file
RichCounts ==
  { << >>,
    << "0" >>,
    << "-", "1" >>,
    << "x" >>,
    << "1", ".", "5", "k" >>,
    << "\"", "1", ",", "0", "0", "0", "\"" >>,
    << "\"", ",", "\"" >>,
    << " ", "7", " " >>,
    << "2", ".", "5" >> }

RichOthers == { << >>, << "R", "e", "p", "o", "s", "t" >> }

RichPosted ==
  { << >>,
    << "2", " ", "d", "a", "y", "s", " ", "a", "g", "o" >>,
    << "3", "0", "0", "0", "0", "0", " ", "y", "e", "a", "r", "s", " ", "a", "g", "o" >> }

RichLines ==
  { Line(<< << "a" >>, d, l, r, p, r >>) :
      d \in RichPosted, l \in RichCounts, p \in RichCounts, r \in RichOthers }

\* the sequences of at most k elements of S
RECURSIVE SeqsUpTo(_, _)
SeqsUpTo(S, k) ==
  IF k = 0 THEN { << >> }
  ELSE LET shorter == SeqsUpTo(S, k - 1)
       IN  shorter \cup { Append(q, x) : q \in shorter, x \in S }

\* the files: at most MaxRows special or plain lines, or one rich line
InputTexts ==
  { Join(ls, << "\n" >>) : ls \in SeqsUpTo(SpecialLines \cup PlainLines, MaxRows) }
  \cup RichLines

OptionSets == [missingAsZero : BOOLEAN, showQuality : BOOLEAN]

\* 2024-10-04 00:30 UTC read on a machine in UTC
Clocks == { [utcMinutes |-> 28800030, tz |-> 0] }

\* ------------------------------------------------------------------------
\* The pipeline as the application drives it: a file is loaded
\* (handleCSVText), the dataset is exported (doExport) and the exported
\* file is loaded again
\* ------------------------------------------------------------------------
VARIABLES text, options, now, pc, dataset, csv, dataset2, call, app

vars == << text, options, now, pc, dataset, csv, dataset2, call, app >>

\* call is the one call of a function that the function specifications
\* below make: its name, its arguments, whether it has returned and its
\* result.  The pipeline makes no such call.
NoCall == [fn |-> "none", args |-> << >>, done |-> TRUE, result |-> "none"]

\* app is the state of the page (app.js): the variables of its two
\* closures, the search box and the table they share, the timers and the
\* file reads in flight.  The closure of lines 1-631 is called one, that of
\* lines 632-1337 two.  This is the page as it is when the script has run
\* and no file has been picked.
NoApp ==
  [ one |-> [ dataset |-> << >>,
              currentRows |-> << >>,
              sortState |-> [key |-> "plays", dir |-> "desc"] ],
    two |-> [ datasets |-> << >>,
              currentRows |-> << >>,
              sortState |-> [key |-> "plays", dir |-> "desc"] ],
    search |-> << >>,
    table |-> << >>,
    onclick |-> "none",
    timers |-> [one |-> FALSE, two |-> FALSE],
    reads |-> [one |-> << >>, two |-> << >>],
    exportDisabled |-> TRUE,
    alerts |-> 0,
    picks |-> 0,
    download |-> [one |-> << >>, two |-> << >>] ]

Init ==
  /\ text \in InputTexts
  /\ options \in OptionSets
  /\ now \in Clocks
  /\ pc = "start"
  /\ dataset = NoDataset
  /\ csv = << >>
  /\ dataset2 = NoDataset
  /\ call = NoCall
  /\ app = NoApp

\* handleCSVText: a load that throws is caught and leaves dataset as it was
Load ==
  /\ pc = "start"
  /\ \E d \in { parseAndProcessCSV(text, options, now) } :
       IF d.error = "none"
       THEN dataset' = d /\ pc' = "loaded"
       ELSE dataset' = dataset /\ pc' = "failed"
  /\ UNCHANGED << text, options, now, csv, dataset2, call, app >>

Export ==
  /\ pc = "loaded"
  /\ csv' = toCSV(dataset)
  /\ pc' = "exported"
  /\ UNCHANGED << text, options, now, dataset, dataset2, call, app >>

\* the exported text loaded in the same way
Reload ==
  /\ pc = "exported"
  /\ \E d \in { parseAndProcessCSV(csv, options, now) } :
       IF d.error = "none"
       THEN dataset2' = d /\ pc' = "reloaded"
       ELSE dataset2' = dataset2 /\ pc' = "failed"
  /\ UNCHANGED << text, options, now, dataset, csv, call, app >>

Next == Load \/ Export \/ Reload

Spec == Init /\ [][Next]_vars

\* ------------------------------------------------------------------------
\* computeCategory called on its own
\* ------------------------------------------------------------------------
RatioValues == { Num(0), Rat(1, 2), Num(1), Rat(3, 2), Num(2), Num(3) }

\* the thresholds quantiles can return: all null, or three ascending numbers
ThresholdValues ==
  { [Q1 |-> Null, Q2 |-> Null, Q3 |-> Null] }
  \cup { th \in [Q1 : RatioValues, Q2 : RatioValues, Q3 : RatioValues] :
           Le(th.Q1, th.Q2) /\ Le(th.Q2, th.Q3) }

CategoryCalls ==
  { [fn |-> "computeCategory", args |-> << plr, likes, th >>,
     done |-> FALSE, result |-> "none"] :
      plr \in RatioValues \cup { Null, Infinity },
      likes \in { Null, Num(0), Num(1), Num(2) },
      th \in ThresholdValues }

\* the pipeline variables while a function is called on its own
PipelineIdle ==
  /\ text = << >>
  /\ options = [missingAsZero |-> TRUE, showQuality |-> TRUE]
  /\ now \in Clocks
  /\ pc = "idle"
  /\ dataset = NoDataset
  /\ csv = << >>
  /\ dataset2 = NoDataset
  /\ app = NoApp

InitCategory ==
  /\ PipelineIdle
  /\ call \in CategoryCalls

CallComputeCategory ==
  /\ call.fn = "computeCategory"
  /\ ~call.done
  /\ call' = [call EXCEPT
                !.result = computeCategory(call.args[1], call.args[2], call.args[3]),
                !.done = TRUE]
  /\ UNCHANGED << text, options, now, pc, dataset, csv, dataset2, app >>

NextCategory == CallComputeCategory

SpecCategory == InitCategory /\ [][NextCategory]_vars

\* ------------------------------------------------------------------------
\* parseNumber called on its own
\* ------------------------------------------------------------------------
\* raw texts of a count cell: empty and blank, k suffixes, thousands
\* separators, a word, signed decimals on and off a half, exponent and
\* radix literals, a cell of one comma, and malformed numbers
NumberTexts ==
  { << >>,
    << " ", " " >>,
    << "1", "4", ".", "2", "K" >>,
    << "5", "2", ".", "5", "K" >>,
    << "1", ",", "2", "3", "4" >>,
    << "R", "e", "p", "o", "s", "t" >>,
    << "-", "1", ".", "5" >>,
    << "2", ".", "5" >>,
    << "-", "2", ".", "5" >>,
    << "1", "e", "3" >>,
    << "0", "x", "1", "0" >>,
    << "1", ".", "5", " ", "k" >>,
    << "-", "1", ".", "5", "k" >>,
    << "," >>,
    << "+", "5" >>,
    << ".", "5" >>,
    << "5", "." >>,
    << "1", " ", "2" >>,
    << "k" >>,
    << "I", "n", "f", "i", "n", "i", "t", "y" >>,
    << "1", "2" >>,
    << " ", "7", " " >>,
    << "-", "0", ".", "4" >>,
    << "1", ".", "2", ".", "3" >>,
    << "2", ".", "5", "e", "-", "1" >> }

\* parseNumber(value, missingAsZero, quality, fieldName) with the field
\* names recorded before the call
NumberCalls ==
  { [fn |-> "parseNumber", args |-> << value, missingAsZero, quality, fieldName >>,
     done |-> FALSE, result |-> "none"] :
      value \in NumberTexts,
      missingAsZero \in BOOLEAN,
      quality \in { << >>, << "likes" >> },
      fieldName \in { "reposts", "plays" } }

InitNumber ==
  /\ PipelineIdle
  /\ call \in NumberCalls

CallParseNumber ==
  /\ call.fn = "parseNumber"
  /\ ~call.done
  /\ call' = [call EXCEPT
                !.result = parseNumber(call.args[1], call.args[2], call.args[3], call.args[4]),
                !.done = TRUE]
  /\ UNCHANGED << text, options, now, pc, dataset, csv, dataset2, app >>

NextNumber == CallParseNumber

SpecNumber == InitNumber /\ [][NextNumber]_vars

\* ------------------------------------------------------------------------
\* parseCSV and escapeCSV called on their own
\* ------------------------------------------------------------------------
\* the characters of the texts: a letter, the comma, the double quote, the
\* line feed and the carriage return
TextAlphabet == { "a", ",", "\"", "\n", "\r" }

\* every text of at most MaxTextLen characters
ShortTexts == UNION { [1..n -> TextAlphabet] : n \in 0..MaxTextLen }

\* the titles a Record can have: not empty, no white space at either end
Titles == { t \in ShortTexts : t # << >> /\ Trim(t) = t }

TokenizerCalls ==
  { [fn |-> "parseCSV", args |-> << t >>, done |-> FALSE, result |-> "none"] :
      t \in ShortTexts }
  \cup
  { [fn |-> "escapeCSV", args |-> << t >>, done |-> FALSE, result |-> "none"] :
      t \in Titles }

InitTokenizer ==
  /\ PipelineIdle
  /\ call \in TokenizerCalls

CallParseCSV ==
  /\ call.fn = "parseCSV"
  /\ ~call.done
  /\ call' = [call EXCEPT !.result = parseCSV(call.args[1]), !.done = TRUE]
  /\ UNCHANGED << text, options, now, pc, dataset, csv, dataset2, app >>

CallEscapeCSV ==
  /\ call.fn = "escapeCSV"
  /\ ~call.done
  /\ call' = [call EXCEPT !.result = escapeCSV(call.args[1]), !.done = TRUE]
  /\ UNCHANGED << text, options, now, pc, dataset, csv, dataset2, app >>

NextTokenizer == CallParseCSV \/ CallEscapeCSV

SpecTokenizer == InitTokenizer /\ [][NextTokenizer]_vars

\* ------------------------------------------------------------------------
\* parseRelativeDate called on its own
\* ------------------------------------------------------------------------
\* raw texts of a posted cell: every unit in singular and plural, capital
\* letters and white space of several kinds, dates before the year 0 and
\* beyond the range of Date, and texts off the grammar
DateTexts ==
  { << >>,
    << "8", " ", "d", "a", "y", "s", " ", "a", "g", "o" >>,
    << "1", " ", "y", "e", "a", "r", " ", "a", "g", "o" >>,
    << "y", "e", "s", "t", "e", "r", "d", "a", "y" >>,
    << " ", "2", " ", "W", "e", "e", "k", "s", " ", " ", "A", "G", "O", " " >>,
    << "3", " ", "m", "o", "n", "t", "h", "s", " ", "a", "g", "o" >>,
    << "1", " ", "d", "a", "y", " ", "a", "g", "o" >>,
    << "0", " ", "d", "a", "y", "s", " ", "a", "g", "o" >>,
    << "3", "0", "0", "0", "0", "0", " ", "y", "e", "a", "r", "s", " ", "a", "g", "o" >>,
    << "3", "0", "0", "0", " ", "y", "e", "a", "r", "s", " ", "a", "g", "o" >>,
    << "8", " ", "d", "a", "y", "s" >>,
    << "-", "1", " ", "d", "a", "y", "s", " ", "a", "g", "o" >>,
    << "1", ".", "5", " ", "d", "a", "y", "s", " ", "a", "g", "o" >>,
    << "8", "d", "a", "y", "s", " ", "a", "g", "o" >>,
    << "1", " ", "w", "e", "e", "k", " ", "a", "g", "o" >>,
    << "2", " ", "y", "e", "a", "r", "s", " ", "a", "g", "o" >>,
    << "1", " ", "m", "o", "n", "t", "h", " ", "a", "g", "o" >>,
    << "8", " ", "d", "a", "y", "s", " ", "a", "g", "o", "!" >>,
    << "8", "\t", "d", "a", "y", "s", "\t", "a", "g", "o" >>,
    << "0", "8", " ", "D", "A", "Y", " ", "a", "g", "o" >> }

\* 2024-10-04 00:30 and 23:30 UTC, read on machines ten hours behind UTC,
\* in UTC and ten hours ahead
DateClocks ==
  { [utcMinutes |-> m, tz |-> z] : m \in { 28800030, 28801410 }, z \in { -600, 0, 600 } }

DateCalls ==
  { [fn |-> "parseRelativeDate", args |-> << s >>, done |-> FALSE, result |-> "none"] :
      s \in DateTexts }

InitDate ==
  /\ text = << >>
  /\ options = [missingAsZero |-> TRUE, showQuality |-> TRUE]
  /\ now \in DateClocks
  /\ pc = "idle"
  /\ dataset = NoDataset
  /\ csv = << >>
  /\ dataset2 = NoDataset
  /\ app = NoApp
  /\ call \in DateCalls

CallParseRelativeDate ==
  /\ call.fn = "parseRelativeDate"
  /\ ~call.done
  /\ call' = [call EXCEPT !.result = parseRelativeDate(call.args[1], now), !.done = TRUE]
  /\ UNCHANGED << text, options, now, pc, dataset, csv, dataset2, app >>

NextDate == CallParseRelativeDate

SpecDate == InitDate /\ [][NextDate]_vars

\* ------------------------------------------------------------------------
\* processDataRows called on its own
\* ------------------------------------------------------------------------
MaxRecords == 4

\* tokenized rows: likes and comments missing (no likes, or absent likes
\* without missingAsZero), the ratios 3, 1/2 and 1, a row without a title,
\* and negative plays
ProcessRows ==
  { << << "a" >>, << >>, << >>, << "2" >>, << "3" >>, << >> >>,
    << << "c" >>, << >>, << "1" >>, << "1" >>, << "3" >>, << "0" >> >>,
    << << "d" >>, << "3", " ", "d", "a", "y", "s", " ", "a", "g", "o" >>, << "2" >>, << "0" >>, << "1" >>, << "1" >> >>,
    << << "e" >>, << >>, << "1" >>, << "0" >>, << "1" >>, << "0" >> >>,
    << << >>, << >>, << "5" >>, << "5" >>, << "5" >>, << "5" >> >>,
    << << "f" >>, << >>, << "1" >>, << "0" >>, << "-", "3" >>, << "2" >> >> }

ProcessCalls ==
  { [fn |-> "processDataRows", args |-> << rows >>, done |-> FALSE, result |-> "none"] :
      rows \in SeqsUpTo(ProcessRows, MaxRecords) }

InitProcess ==
  /\ text = << >>
  /\ options \in [missingAsZero : BOOLEAN, showQuality : { TRUE }]
  /\ now \in Clocks
  /\ pc = "idle"
  /\ dataset = NoDataset
  /\ csv = << >>
  /\ dataset2 = NoDataset
  /\ app = NoApp
  /\ call \in ProcessCalls

CallProcessDataRows ==
  /\ call.fn = "processDataRows"
  /\ ~call.done
  /\ call' = [call EXCEPT !.result = processDataRows(call.args[1], options, now),
                          !.done = TRUE]
  /\ UNCHANGED << text, options, now, pc, dataset, csv, dataset2, app >>

NextProcess == CallProcessDataRows

SpecProcess == InitProcess /\ [][NextProcess]_vars

\* ------------------------------------------------------------------------
\* round2 and finiteOrEmpty called on their own
\* ------------------------------------------------------------------------
\* the values a ratio or rate cell is written from: absent, infinite, not a
\* number, 1e22, and fractions of either sign with short, long and
\* rounded-away decimals
FormatValues ==
  { Null, Infinity, NaN, Huge }
  \cup { Rat(n, d) : n \in -2..7, d \in { 1, 3, 200 } }

FormatCalls ==
  { [fn |-> f, args |-> << v >>, done |-> FALSE, result |-> "none"] :
      f \in { "round2", "finiteOrEmpty" }, v \in FormatValues }

InitFormat ==
  /\ PipelineIdle
  /\ call \in FormatCalls

CallRound2 ==
  /\ call.fn = "round2"
  /\ ~call.done
  /\ call' = [call EXCEPT !.result = round2(call.args[1]), !.done = TRUE]
  /\ UNCHANGED << text, options, now, pc, dataset, csv, dataset2, app >>

CallFiniteOrEmpty ==
  /\ call.fn = "finiteOrEmpty"
  /\ ~call.done
  /\ call' = [call EXCEPT !.result = finiteOrEmpty(call.args[1]), !.done = TRUE]
  /\ UNCHANGED << text, options, now, pc, dataset, csv, dataset2, app >>

NextFormat == CallRound2 \/ CallFiniteOrEmpty

SpecFormat == InitFormat /\ [][NextFormat]_vars

\* ------------------------------------------------------------------------
\* The statistics of the ratios: quantiles and median called on the finite
\* play_like_ratio values of a Dataset, in the arithmetic of doubles
\* ------------------------------------------------------------------------
MaxRatios == 3

\* the ratios of records with one like and 1, 3, 2^52 + 1, 2^53 or 2^53 + 2
\* plays
RatioDoubles ==
  { Dbl(0, 8), Dbl(0, 24), Dbl(2^27, 8), Dbl(2^28, 0), Dbl(2^28, 16) }

\* the play_like_ratio of a record: a double, infinite or absent
RatioCells == RatioDoubles \cup { Infinity, Null }

RatioCalls ==
  { [fn |-> "ratioStatistics", args |-> << ratios >>, done |-> FALSE,
     result |-> "none"] : ratios \in SeqsUpTo(RatioCells, MaxRatios) }

InitRatios ==
  /\ PipelineIdle
  /\ call \in RatioCalls

\* finitePLR, thresholds and medianPLR as processDataRows computes them
CallRatioStatistics ==
  /\ call.fn = "ratioStatistics"
  /\ ~call.done
  /\ \E finitePLR \in { FilterFinite(call.args[1]) } :
       call' = [call EXCEPT !.result = [thresholds |-> quantiles(finitePLR),
                                        medianPLR |-> median(finitePLR)],
                            !.done = TRUE]
  /\ UNCHANGED << text, options, now, pc, dataset, csv, dataset2, app >>

NextRatios == CallRatioStatistics

SpecRatios == InitRatios /\ [][NextRatios]_vars

\* ------------------------------------------------------------------------
\* The page as the user drives it
\* ------------------------------------------------------------------------
MaxPicks == 2

\* the files the user picks: one of two tracks, and one whose posted cell
\* makes parseAndProcessCSV throw
AppFiles ==
  { [name |-> "A", text |-> << "A", "b", ",", ",", "1", ",", "0", ",", "2", ",", "0", "\n", "b", ",", ",", "2", ",", "0", ",", "1", ",", "0" >>],
    [name |-> "X", text |-> << "a", ",", "3", "0", "0", "0", "0", "0", " ", "y", "e", "a", "r", "s", " ", "a", "g", "o", ",", "1", ",", "0", ",", "2", ",", "0" >>] }

FileText(name) == (CHOOSE f \in AppFiles : f.name = name).text

\* what the user types in the search box
SearchTexts == { << >>, << " ", "A", " " >> }

\* the columns whose headers the user clicks
SortKeys == { "plays" }

\* no read of a picked file is in flight and no search timer is running:
\* the user acts when the page is at rest, the reads of one pick and the
\* timers of one input event having run in every order the page allows
AtRest ==
  /\ app.reads = [one |-> << >>, two |-> << >>]
  /\ app.timers = [one |-> FALSE, two |-> FALSE]

InitApp ==
  /\ PipelineIdle
  /\ call = NoCall

\* the user picks a file: both closures handle the change event and each
\* starts its own read of the file
PickFile ==
  /\ app.picks < MaxPicks
  /\ AtRest
  /\ \E f \in AppFiles :
       app' = [app EXCEPT !.reads = [one |-> << f.name >>, two |-> << f.name >>],
                          !.picks = @ + 1]
  /\ UNCHANGED << text, options, now, pc, dataset, csv, dataset2, call >>

\* the read of closure one ends and handleFilePick goes on
ReadDoneOne ==
  /\ app.reads.one # << >>
  /\ app' = handleCSVText([app EXCEPT !.reads.one = << >>],
                          FileText(app.reads.one[1]), options, now)
  /\ UNCHANGED << text, options, now, pc, dataset, csv, dataset2, call >>

\* the read of closure two ends and handleFilePick goes on
ReadDoneTwo ==
  /\ app.reads.two # << >>
  /\ app' = handleSingleCSV([app EXCEPT !.reads.two = << >>],
                            FileText(app.reads.two[1]), app.reads.two[1], options, now)
  /\ UNCHANGED << text, options, now, pc, dataset, csv, dataset2, call >>

\* an input event of the search box: both debounced handlers start their
\* timers anew
TypeSearch ==
  /\ AtRest
  /\ \E s \in SearchTexts \ { app.search } :
       app' = [app EXCEPT !.search = s, !.timers = [one |-> TRUE, two |-> TRUE]]
  /\ UNCHANGED << text, options, now, pc, dataset, csv, dataset2, call >>

\* the timers run out in the order they were started
SearchTimerOne ==
  /\ app.timers.one
  /\ app' = doSearchOne([app EXCEPT !.timers.one = FALSE])
  /\ UNCHANGED << text, options, now, pc, dataset, csv, dataset2, call >>

SearchTimerTwo ==
  /\ app.timers.two
  /\ ~app.timers.one
  /\ app' = doSearchTwo([app EXCEPT !.timers.two = FALSE])
  /\ UNCHANGED << text, options, now, pc, dataset, csv, dataset2, call >>

\* a click on a column header runs the handler the last renderTable wired
ClickHeader ==
  /\ AtRest
  /\ app.onclick # "none"
  /\ \E key \in SortKeys :
       app' = IF app.onclick = "one" THEN clickHeaderOne(app, key)
              ELSE clickHeaderTwo(app, key)
  /\ UNCHANGED << text, options, now, pc, dataset, csv, dataset2, call >>

ToggleDataset ==
  /\ AtRest
  /\ \E i \in 1..Len(app.two.datasets) : app' = toggleDataset(app, i)
  /\ UNCHANGED << text, options, now, pc, dataset, csv, dataset2, call >>

\* a click on Export CSV runs doExport of both closures
ClickExport ==
  /\ AtRest
  /\ ~app.exportDisabled
  /\ app' = doExportTwo(doExportOne(app))
  /\ app' # app
  /\ UNCHANGED << text, options, now, pc, dataset, csv, dataset2, call >>

NextApp ==
  \/ PickFile
  \/ ReadDoneOne
  \/ ReadDoneTwo
  \/ TypeSearch
  \/ SearchTimerOne
  \/ SearchTimerTwo
  \/ ClickHeader
  \/ ToggleDataset
  \/ ClickExport

SpecApp == InitApp /\ [][NextApp]_vars

\* ------------------------------------------------------------------------
\* Properties
\* ------------------------------------------------------------------------
\* the pipeline runs made so far: the text given and the Dataset returned
Runs ==
  IF pc \in {"loaded", "exported"}
  THEN << [input |-> text, out |-> dataset] >>
  ELSE IF pc = "reloaded"
  THEN << [input |-> text, out |-> dataset], [input |-> csv, out |-> dataset2] >>
  ELSE << >>

\* the Records of all Datasets produced so far
Records == UNION { { Runs[k].out.rows[i] : i \in 1..Len(Runs[k].out.rows) } : k \in 1..Len(Runs) }

CountsOf(r) == { r.likes, r.reposts, r.plays, r.comments }

IsInteger(v) == v.t = "num" /\ v.d = 1

\* C1 as stated: loading the exported text gives a Dataset with as many
\* records as the exported one and, record by record, the same likes,
\* reposts, plays, comments and daysSinceUpload and the same
\* engagementRatePct, likePct and playsPerDay up to 2-decimal rounding,
\* whenever the exported Dataset has no infinite playLikeRatio.
C1_RoundTripAsStated ==
  (pc = "reloaded" /\ \A i \in 1..Len(dataset.rows) : dataset.rows[i].play_like_ratio # Infinity)
  => /\ Len(dataset2.rows) = Len(dataset.rows)
     /\ \A i \in 1..Len(dataset.rows) :
          LET a == dataset.rows[i]
              b == dataset2.rows[i]
          IN  /\ b.likes = a.likes /\ b.reposts = a.reposts
              /\ b.plays = a.plays /\ b.comments = a.comments
              /\ b.days_since_upload = a.days_since_upload
              /\ round2(b.engagement_rate_pct) = round2(a.engagement_rate_pct)
              /\ round2(b.like_pct) = round2(a.like_pct)
              /\ round2(b.plays_per_day) = round2(a.plays_per_day)

\* a count of the exported Dataset as the second load reads its cell:
\* an absent value is an empty cell, which is a missing number
Reread(v) ==
  IF v # Null THEN v
  ELSE IF options.missingAsZero THEN Num(0) ELSE Null

\* C1 amended: loading the exported text (same options) gives one record
\* more than the exported Dataset: the first is the export header line,
\* titled TRACK, and record i + 1 reads record i's export line by the six
\* input positions, so its likes is record i's daysSinceUpload, its
\* reposts is record i's plays, its plays is record i's likes, its
\* comments is record i's reposts and its daysSinceUpload is absent.
C1_ReloadShiftsColumns ==
  pc = "reloaded"
  => /\ Len(dataset2.rows) = Len(dataset.rows) + 1
     /\ dataset2.rows[1].title = << "T", "R", "A", "C", "K" >>
     /\ \A i \in 1..Len(dataset.rows) :
          LET a == dataset.rows[i]
              b == dataset2.rows[i + 1]
          IN  /\ b.likes = Reread(a.days_since_upload)
              /\ b.reposts = Reread(a.plays)
              /\ b.plays = Reread(a.likes)
              /\ b.comments = Reread(a.reposts)
              /\ b.days_since_upload = Null

\* a Dataset with a dated record and no infinite ratio has been exported
\* and loaded again
C1_Witness ==
  /\ pc = "reloaded"
  /\ \A i \in 1..Len(dataset.rows) : dataset.rows[i].play_like_ratio # Infinity
  /\ \E i \in 1..Len(dataset.rows) :
       /\ dataset.rows[i].days_since_upload # Null
       /\ dataset.rows[i].plays # dataset.rows[i].likes

\* C2 as stated: in every Record, for both values of missingAsZero, each
\* of likes, reposts, plays and comments is a non-negative integer and is
\* never absent.
C2_CountsNonNegativeNeverAbsent ==
  \A r \in Records : \A v \in CountsOf(r) : IsInteger(v) /\ v.n >= 0

\* C2 amended: in every Record each of likes, reposts, plays and comments
\* is an integer, which can be negative, and it is absent only when
\* missingAsZero is false.
C2_CountsIntegerOrAbsent ==
  \A r \in Records : \A v \in CountsOf(r) :
    \/ IsInteger(v)
    \/ v = Null /\ ~options.missingAsZero

\* with missingAsZero an unparsable likes cell became 0 and a decimal
\* plays cell became an integer
C2_Witness ==
  /\ options.missingAsZero
  /\ \E r \in Records :
       /\ \E i \in 1..Len(r.quality) : r.quality[i] = "likes"
       /\ r.likes = Num(0)
       /\ r.plays = Num(3)
       /\ pc = "loaded"
       /\ text = Line(<< << "a" >>, << >>, << "x" >>, << >>, << "2", ".", "5" >>, << >> >>)

\* C3: computeCategory follows the stated priority: a non-finite ratio
\* gives Poor; otherwise likes = 0 gives Poor; otherwise absent thresholds
\* give Average; otherwise ratio <= Q1 gives Excellent, ratio <= Q2 Good,
\* ratio <= Q3 Average and anything larger Poor.
C3_CategoryPriority ==
  (call.fn = "computeCategory" /\ call.done)
  => LET plr == call.args[1]
         likes == call.args[2]
         th == call.args[3]
         atMost(q) == plr.n * q.d <= q.n * plr.d
     IN  call.result =
           IF plr.t # "num" THEN "Poor"
           ELSE IF likes.t = "num" /\ likes.n = 0 THEN "Poor"
           ELSE IF th.Q1.t = "null" THEN "Average"
           ELSE IF atMost(th.Q1) THEN "Excellent"
           ELSE IF atMost(th.Q2) THEN "Good"
           ELSE IF atMost(th.Q3) THEN "Average"
           ELSE "Poor"

\* a ratio equal to Q2 and above Q1 was categorized with likes > 0
C3_Witness ==
  /\ call.fn = "computeCategory" /\ call.done
  /\ call.args[2] = Num(1)
  /\ call.args[1] = call.args[3].Q2
  /\ call.args[1] # call.args[3].Q1
  /\ call.result = "Good"

\* C4: in every Dataset every record with likes = 0 has category Poor.
C4_LikesZeroIsPoor ==
  \A r \in Records : r.likes = Num(0) => r.category = "Poor"

\* a Dataset with thresholds holds a record with likes = 0 and plays > 0
C4_Witness ==
  /\ pc = "loaded"
  /\ dataset.thresholds.Q1 # Null
  /\ \E i \in 1..Len(dataset.rows) :
       /\ dataset.rows[i].likes = Num(0)
       /\ dataset.rows[i].plays = Num(3)

C6_ZeroPlaysRatioAbsent ==
  \A r \in Records : r.plays = Num(0) => r.play_like_ratio = Null

\* C7 as stated: playLikeRatio is absent only when plays = 0: a record
\* whose plays is not 0 always has a numeric or infinite playLikeRatio.
C7_AbsentOnlyZeroPlays ==
  \A r \in Records :
    (r.plays.t = "num" /\ r.plays.n # 0) => r.play_like_ratio # Null

\* C7 amended: playLikeRatio is absent only when plays is absent, zero or
\* negative, or likes is absent or negative: a record with plays > 0 and
\* likes >= 0 always has a numeric or infinite playLikeRatio.
C7_AbsentOnlyWithoutPlaysOrLikes ==
  \A r \in Records :
    r.play_like_ratio = Null
    => \/ r.plays = Null \/ r.plays.n <= 0
       \/ r.likes = Null \/ r.likes.n < 0

\* one Dataset holds a record with plays > 0 and likes = 0, whose ratio is
\* infinite, and a record with plays = 0 and likes = 0, whose ratio is
\* absent
C7_Witness ==
  /\ pc = "loaded"
  /\ \E i, j \in 1..Len(dataset.rows) :
       /\ dataset.rows[i].plays = Num(3)
       /\ dataset.rows[i].likes = Num(0)
       /\ dataset.rows[i].play_like_ratio = Infinity
       /\ dataset.rows[j].plays = Num(0)
       /\ dataset.rows[j].play_like_ratio = Null

Rank(category) ==
  IF category = "Excellent" THEN 1
  ELSE IF category = "Good" THEN 2
  ELSE IF category = "Average" THEN 3
  ELSE 4

SixFields(row) == [i \in 1..6 |-> IF i <= Len(row) THEN row[i] ELSE << >>]

IsBlankRow(row) == \A i \in 1..6 : Trim(SixFields(row)[i]) = << >>

\* the six fields are the canonical header but for the case of letters
EqualsHeaderIgnoringCase(row) ==
  \A i \in 1..6 : ToLowerCase(SixFields(row)[i]) = CANONICAL_HEADERS[i]

\* the six fields, each trimmed, are the canonical header but for case
EqualsHeaderTrimmedIgnoringCase(row) ==
  \A i \in 1..6 : ToLowerCase(Trim(SixFields(row)[i])) = CANONICAL_HEADERS[i]

\* the filtering of rows, given which rows count as header rows: row i
\* gives a Record exactly if Kept(row i); the record count is the number
\* of kept rows; records are in input order; no title is empty
RowFiltering(Kept(_)) ==
  \A k \in 1..Len(Runs) :
    LET rows == parseCSV(Runs[k].input)
        recs == Runs[k].out.rows
    IN  /\ \A i \in 1..Len(rows) :
             (\E j \in 1..Len(recs) : recs[j].source_line = i) <=> Kept(rows[i])
        /\ Len(recs) = Cardinality({ i \in 1..Len(rows) : Kept(rows[i]) })
        /\ \A i, j \in 1..Len(recs) :
             i < j => recs[i].source_line < recs[j].source_line
        /\ \A j \in 1..Len(recs) :
             /\ recs[j].title # << >>
             /\ recs[j].source_line \in 1..Len(rows)
             /\ recs[j].title = Trim(SixFields(rows[recs[j].source_line])[1])

KeptAsStated(row) ==
  /\ ~EqualsHeaderIgnoringCase(row)
  /\ ~IsBlankRow(row)
  /\ Trim(SixFields(row)[1]) # << >>

KeptTrimmed(row) ==
  /\ ~EqualsHeaderTrimmedIgnoringCase(row)
  /\ ~IsBlankRow(row)
  /\ Trim(SixFields(row)[1]) # << >>

\* C9 as stated: a tokenized row gives a Record if and only if, padded or
\* cut to 6 fields, it is not case-insensitively equal to the canonical
\* header, its fields are not all blank and its trimmed first field is not
\* empty; the record count is the number of such rows, records keep input
\* order and no Record has an empty title.
C9_RowFilteringAsStated == RowFiltering(KeptAsStated)

\* C9 amended: the same, with the header test made on the trimmed fields:
\* a row whose six fields, each trimmed of surrounding white space, equal
\* the canonical header case-insensitively is dropped as well.
C9_RowFiltering == RowFiltering(KeptTrimmed)

\* a file of a data row followed by a header row gave exactly one Record
C9_Witness ==
  /\ pc = "loaded"
  /\ Len(parseCSV(text)) = 2
  /\ EqualsHeaderIgnoringCase(parseCSV(text)[2])
  /\ Len(dataset.rows) = 1
  /\ dataset.rows[1].source_line = 1

\* C10: a text that is empty or has only canonical header rows and blank
\* rows gives a Dataset with zero records, absent Q1, Q2 and Q3,
\* avgEngagement 0, absent medianPLR and all four totals 0.
C10_EmptyDataset ==
  \A k \in 1..Len(Runs) :
    LET rows == parseCSV(Runs[k].input)
        d == Runs[k].out
    IN  (\A i \in 1..Len(rows) :
           EqualsHeaderTrimmedIgnoringCase(rows[i]) \/ IsBlankRow(rows[i]))
        => /\ Len(d.rows) = 0
           /\ d.thresholds = [Q1 |-> Null, Q2 |-> Null, Q3 |-> Null]
           /\ d.avgEngagement = Num(0)
           /\ d.medianPLR = Null
           /\ d.totals = [plays |-> Num(0), likes |-> Num(0),
                          reposts |-> Num(0), comments |-> Num(0)]

\* a file of a header row and a blank row has been processed
C10_Witness ==
  /\ pc = "loaded"
  /\ Len(parseCSV(text)) = 2
  /\ EqualsHeaderIgnoringCase(parseCSV(text)[1])
  /\ IsBlankRow(parseCSV(text)[2])
  /\ Len(dataset.rows) = 0

\* the names of the count fields, in the order of their columns 3..6
CountFields == << "likes", "reposts", "plays", "comments" >>

\* name is in the record's quality.invalid_fields
Flagged(r, name) == \E i \in 1..Len(r.quality) : r.quality[i] = name

\* the raw text of a count cell gives no number: it is empty once trimmed,
\* or, its commas removed, it is neither a number with a k suffix nor a
\* text that Number reads as a finite number
GivesNoNumber(raw) ==
  With(Trim(raw), LAMBDA t :
  With(ReplaceAll(t, ",", << >>), LAMBDA v :
    t = << >> \/ (KMatch(v) = << >> /\ ~IsFinite(ToNumber(v)))))

\* the six raw fields of the row the record r of run k was made from
RawFields(k, r) == SixFields(parseCSV(Runs[k].input)[r.source_line])

NumberCallDone == call.fn = "parseNumber" /\ call.done

\* the text of a parseNumber call, trimmed and with its commas removed
CleanText(value) == ReplaceAll(Trim(value), ",", << >>)

\* s is a plain integer or decimal: an optional minus, digits and
\* optionally a point and digits
IsPlainNumber(s) == IsKNumber(s)

\* the number a text with a k suffix or a plain number stands for, before
\* it is rounded
StatedValue(v) ==
  IF KMatch(v) # << >>
  THEN Mul(parseFloat(KMatch(v)), Num(1000))
  ELSE parseFloat(v)

\* C12 as stated: trimmed and without commas, a text of the form
\* <optional minus><digits><optional .digits><optional whitespace><k|K>
\* yields round(number * 1000); a plain integer or decimal yields it
\* rounded to an integer; any other text, and the empty string, yields 0
\* with fieldName flagged when missingAsZero is true and absent with
\* nothing flagged when it is false.
C12_CoercionAsStated ==
  NumberCallDone
  => LET v == CleanText(call.args[1])
         missingAsZero == call.args[2]
         quality == call.args[3]
         fieldName == call.args[4]
     IN  IF KMatch(v) # << >> \/ IsPlainNumber(v)
         THEN /\ call.result.value.t = "num"
              /\ call.result.value.d = 1
              /\ Abs(2 * (call.result.value.n * StatedValue(v).d - StatedValue(v).n))
                   <= StatedValue(v).d
              /\ call.result.quality = quality
         ELSE IF missingAsZero
         THEN call.result = [value |-> Num(0), quality |-> Append(quality, fieldName)]
         ELSE call.result = [value |-> Null, quality |-> quality]

\* the number parseNumber rounds: the number before the k suffix times
\* 1000, or the number Number reads
RoundedNumber(v) ==
  IF KMatch(v) # << >>
  THEN Mul(parseFloat(KMatch(v)), Num(1000))
  ELSE ToNumber(v)

\* a call of parseNumber has returned a number read from the text
NumberRead ==
  /\ NumberCallDone
  /\ Trim(call.args[1]) # << >>
  /\ IsFinite(RoundedNumber(CleanText(call.args[1])))

\* C13 as stated: the final value is rounded half away from zero, for
\* negative inputs too: the result n is the integer nearest to the number
\* x, and of larger magnitude when x is exactly between two integers.
C13_RoundsHalfAwayFromZero ==
  NumberRead
  => LET x == RoundedNumber(CleanText(call.args[1]))
         n == call.result.value.n
     IN  /\ call.result.value.t = "num" /\ call.result.value.d = 1
         /\ IF x.n >= 0
            THEN 2 * n * x.d - x.d <= 2 * x.n /\ 2 * x.n < 2 * n * x.d + x.d
            ELSE 2 * n * x.d - x.d < 2 * x.n /\ 2 * x.n <= 2 * n * x.d + x.d

\* C13 amended: the final value is rounded half up (toward positive
\* infinity), as Math.round does: the result n is the integer with
\* n - 1/2 <= x < n + 1/2, so -1.5 gives -1 and 2.5 gives 3.
C13_RoundsHalfUp ==
  NumberRead
  => LET x == RoundedNumber(CleanText(call.args[1]))
         n == call.result.value.n
     IN  /\ call.result.value.t = "num" /\ call.result.value.d = 1
         /\ 2 * n * x.d - x.d <= 2 * x.n /\ 2 * x.n < 2 * n * x.d + x.d

\* parseNumber has returned -1 for the text -1.5
C13_Witness ==
  /\ NumberRead
  /\ call.args[1] = << "-", "1", ".", "5" >>
  /\ call.result.value = Num(-1)

\* a call of parseCSV has returned
TokenizerCallDone == call.fn = "parseCSV" /\ call.done

\* text[i] is read inside quotes: an odd number of double quotes precede it
\* (an escaped quote is two quotes, which leave the count's parity alone)
InsideQuotes(t, i) == Cardinality({ j \in 1..(i - 1) : t[j] = "\"" }) % 2 = 1

\* the first position of the run of double quotes that text[i] is in
QuoteRunStart(t, i) ==
  CHOOSE p \in 1..i :
    /\ \A j \in p..i : t[j] = "\""
    /\ p = 1 \/ t[p - 1] # "\""

\* text[i] is the first quote of a doubled quote inside quotes
EscapedQuote(t, i) ==
  /\ t[i] = "\"" /\ i < Len(t) /\ t[i + 1] = "\""
  /\ LET p == QuoteRunStart(t, i)
     IN  IF InsideQuotes(t, p) THEN (i - p) % 2 = 0 ELSE (i - p) % 2 = 1

\* text[i] is a comma or a line feed outside quotes
FieldEnd(t, i) == ~InsideQuotes(t, i) /\ t[i] \in { ",", "\n" }

RowEnd(t, i) == ~InsideQuotes(t, i) /\ t[i] = "\n"

\* text[i] is content of its field: an escaped quote, a character inside
\* quotes, or a character outside quotes that is no comma, line feed or
\* carriage return
FieldContent(t, i) ==
  IF t[i] = "\"" THEN EscapedQuote(t, i)
  ELSE InsideQuotes(t, i) \/ t[i] \notin { ",", "\n", "\r" }

\* the elements of a set of positions in ascending order
Ascending(S) ==
  [k \in 1..Cardinality(S) |-> CHOOSE i \in S : Cardinality({ j \in S : j <= i }) = k]

\* the content of text[lo..hi]
ContentOf(t, lo, hi) ==
  LET at == Ascending({ i \in lo..hi : FieldContent(t, i) })
  IN  [k \in 1..Len(at) |-> t[at[k]]]

\* text[lo..hi] cut at the positions satisfying Cut: the pairs << from, to >>
\* of the pieces between the cuts
Pieces(t, lo, hi, Cut(_, _)) ==
  LET cuts == Ascending({ i \in lo..hi : Cut(t, i) })
  IN  [k \in 1..(Len(cuts) + 1) |->
         << IF k = 1 THEN lo ELSE cuts[k - 1] + 1,
            IF k = Len(cuts) + 1 THEN hi ELSE cuts[k] - 1 >>]

\* the rows of a text read by the quoting rules: a row for every piece
\* between line feeds outside quotes, a field for every piece of the row
\* between commas outside quotes
RowsOf(t) ==
  LET lines == Pieces(t, 1, Len(t), RowEnd)
  IN  [r \in 1..Len(lines) |->
         LET cells == Pieces(t, lines[r][1], lines[r][2], FieldEnd)
         IN  [f \in 1..Len(cells) |-> ContentOf(t, cells[f][1], cells[f][2])]]

\* rows without its last row
ButLast(rows) == SubSeq(rows, 1, Len(rows) - 1)

\* C14: inside quotes a doubled quote gives one quote character and
\* commas and line feeds are content; outside quotes each comma ends a
\* field and each line feed ends a row: the rows returned are the rows of
\* the text read by these rules (but for a last row that is removed), so
\* each has as many fields as its unquoted commas plus one.
C14_TokenizerQuoting ==
  TokenizerCallDone
  => LET t == call.args[1]
         rows == call.result
         lines == Pieces(t, 1, Len(t), RowEnd)
     IN  /\ rows = RowsOf(t) \/ rows = ButLast(RowsOf(t))
         /\ \A r \in 1..Len(rows) :
              Len(rows[r]) =
                Cardinality({ i \in lines[r][1]..lines[r][2] : FieldEnd(t, i) }) + 1

\* the text of a quote, a comma and two quotes has been tokenized to one
\* row of one field, which holds the comma and one quote
C14_Witness ==
  /\ TokenizerCallDone
  /\ call.args[1] = << "\"", ",", "\"", "\"" >>
  /\ call.result = << << << ",", "\"" >> >> >>

\* a call of escapeCSV has returned
EscapeCallDone == call.fn = "escapeCSV" /\ call.done

\* the title wrapped in quotes with its quotes doubled
QuotedForm(title) ==
  << "\"" >> \o ReplaceAll(title, "\"", << "\"", "\"" >>) \o << "\"" >>

\* C15: the escaped form of every title tokenizes back to exactly one row
\* of exactly one field equal to the title, and the title is quoted
\* (wrapped in quotes, its quotes doubled) if and only if it contains a
\* comma, a double quote or a line feed.
C15_TitleRoundTrip ==
  EscapeCallDone
  => LET title == call.args[1]
         special == \E i \in 1..Len(title) : title[i] \in { ",", "\"", "\n" }
     IN  /\ parseCSV(call.result) = << << title >> >>
         /\ call.result = IF special THEN QuotedForm(title) ELSE title

\* text ends with a line feed outside quotes
EndsWithNewline(t) == t # << >> /\ RowEnd(t, Len(t))

\* C16: the tokenizer removes at most one row, and only a last row of a
\* single empty field; a text whose last line is not empty and is followed
\* by exactly one line feed gives no extra empty row, and a text ending in
\* two line feeds gives one row of a single empty field at the end.
C16_TrailingRow ==
  TokenizerCallDone
  => LET t == call.args[1]
         rows == call.result
         all == RowsOf(t)
     IN  /\ rows = (IF all[Len(all)] = << << >> >> THEN ButLast(all) ELSE all)
         /\ (EndsWithNewline(t) /\ Len(t) > 1 /\ ~RowEnd(t, Len(t) - 1))
            => rows = ButLast(all) /\ Len(rows) = Len(all) - 1
         /\ (EndsWithNewline(t) /\ Len(t) > 1 /\ RowEnd(t, Len(t) - 1))
            => rows[Len(rows)] = << << >> >> /\ Len(rows) = Len(all) - 1

\* the text a, line feed, line feed has been tokenized to the row a and
\* one row of a single empty field
C16_Witness ==
  /\ TokenizerCallDone
  /\ call.args[1] = << "a", "\n", "\n" >>
  /\ call.result = << << << "a" >> >>, << << >> >> >>

\* the characters of t at the positions satisfying Keep, in order
Select(t, Keep(_, _)) ==
  LET at == Ascending({ i \in 1..Len(t) : Keep(t, i) })
  IN  [k \in 1..Len(at) |-> t[at[k]]]

NotCR(t, i) == t[i] # "\r"

\* text[i] is no carriage return outside quotes, or it stands directly
\* before a double quote (where it keeps two quotes from being read as a
\* doubled quote)
NotLooseCR(t, i) ==
  \/ t[i] # "\r"
  \/ InsideQuotes(t, i)
  \/ (i < Len(t) /\ t[i + 1] = "\"")

\* the number of carriage returns in the fields of rows
CRsIn(rows) ==
  Cardinality({ << r, f, i >> \in (1..Len(rows)) \X (1..(MaxTextLen + 1)) \X (1..MaxTextLen) :
                  /\ f <= Len(rows[r]) /\ i <= Len(rows[r][f])
                  /\ rows[r][f][i] = "\r" })

\* C17 as stated: tokenizing a text gives the same rows as tokenizing the
\* text with every carriage return removed, and no field contains a
\* carriage return.
C17_CarriageReturnsIgnored ==
  TokenizerCallDone
  => /\ call.result = parseCSV(Select(call.args[1], NotCR))
     /\ CRsIn(call.result) = 0

\* C17 amended: carriage returns outside quotes are ignored: tokenizing a
\* text gives the same rows as tokenizing the text without its carriage
\* returns that are outside quotes and not directly before a double quote
\* (so without the carriage return of every unquoted CRLF); a carriage
\* return inside quotes is kept as field content, so the fields contain as
\* many carriage returns as the text has inside quotes.
C17_UnquotedCarriageReturnsIgnored ==
  TokenizerCallDone
  => LET t == call.args[1]
     IN  /\ call.result = parseCSV(Select(t, NotLooseCR))
         /\ CRsIn(call.result)
              = Cardinality({ i \in 1..Len(t) : t[i] = "\r" /\ InsideQuotes(t, i) })

\* the text a, carriage return, line feed, a has been tokenized to two
\* rows of the field a
C17_Witness ==
  /\ TokenizerCallDone
  /\ call.args[1] = << "a", "\r", "\n", "a" >>
  /\ call.result = << << << "a" >> >>, << << "a" >> >> >>

\* a call of parseRelativeDate has ended, by returning or by throwing
DateCallDone == call.fn = "parseRelativeDate" /\ call.done

\* the number of digits s begins with
DigitPrefix(s) ==
  CHOOSE k \in 0..Len(s) :
    /\ \A i \in 1..k : IsDigit(s[i])
    /\ k = Len(s) \/ ~IsDigit(s[k + 1])

\* s begins with white space and t is what follows it
SpacesThen(s, t) == s # t /\ TrimStart(s) = t

\* the days of one unit, for the unit names the grammar has
UnitDays ==
  [u \in DayUnits \cup WeekUnits \cup MonthUnits \cup YearUnits |->
     IF u \in DayUnits THEN 1
     ELSE IF u \in WeekUnits THEN 7
     ELSE IF u \in MonthUnits THEN 30
     ELSE 365]

\* s, trimmed and in lower case, is <integer> <unit> ago with the unit u
ReadsAs(s, u) ==
  LET t == ToLowerCase(Trim(s))
      k == DigitPrefix(t)
      afterUnit == SubSeq(t, k + 1 + (Len(t) - k - Len(TrimStart(SubSeq(t, k + 1, Len(t))))) + Len(u), Len(t))
      fromUnit == TrimStart(SubSeq(t, k + 1, Len(t)))
  IN  /\ k > 0
      /\ SpacesThen(SubSeq(t, k + 1, Len(t)), fromUnit)
      /\ Len(fromUnit) >= Len(u) /\ SubSeq(fromUnit, 1, Len(u)) = u
      /\ SpacesThen(SubSeq(fromUnit, Len(u) + 1, Len(fromUnit)), << "a", "g", "o" >>)

\* the days a text on the grammar stands for, or -1 for a text off it
StatedDays(s) ==
  IF \E u \in DOMAIN UnitDays : ReadsAs(s, u)
  THEN LET t == ToLowerCase(Trim(s))
           u == CHOOSE v \in DOMAIN UnitDays : ReadsAs(s, v)
       IN  DigitsValue(SubSeq(t, 1, DigitPrefix(t))) * UnitDays[u]
  ELSE -1

\* C18 as stated: for a text on the grammar days = integer * 1, 7, 30 or
\* 365 and both iso and days are present; for any other text both are
\* absent and no error is raised; days is present if and only if iso is,
\* and is a non-negative integer when present.
C18_RelativeDateParsing ==
  DateCallDone
  => LET d == StatedDays(call.args[1])
     IN  /\ ~call.result.threw
         /\ IF d >= 0
            THEN call.result.days = Num(d) /\ call.result.iso # << >>
            ELSE call.result.days = Null /\ call.result.iso = << >>
         /\ call.result.days # Null <=> call.result.iso # << >>

\* the day number, counted from 1970-01-01, of the day d of month m of the
\* year y in the proleptic Gregorian calendar
DaysFromCivil(y, m, d) ==
  LET yy == IF m <= 2 THEN y - 1 ELSE y
      era == yy \div 400
      yoe == yy - era * 400
      doy == (153 * (IF m > 2 THEN m - 3 ELSE m + 9) + 2) \div 5 + d - 1
  IN  era * 146097 + yoe * 365 + yoe \div 4 - yoe \div 100 + doy - 719468

LeapYear(y) == y % 4 = 0 /\ (y % 100 # 0 \/ y % 400 = 0)

DaysInMonth(y, m) ==
  IF m = 2 THEN (IF LeapYear(y) THEN 29 ELSE 28)
  ELSE IF m \in { 4, 6, 9, 11 } THEN 30 ELSE 31

\* iso is the text YYYY-MM-DD of the day with the number dayNo
IsDateOf(iso, dayNo) ==
  /\ Len(iso) = 10
  /\ iso[5] = "-" /\ iso[8] = "-"
  /\ AllDigits(SubSeq(iso, 1, 4)) /\ AllDigits(SubSeq(iso, 6, 7)) /\ AllDigits(SubSeq(iso, 9, 10))
  /\ LET y == DigitsValue(SubSeq(iso, 1, 4))
         m == DigitsValue(SubSeq(iso, 6, 7))
         d == DigitsValue(SubSeq(iso, 9, 10))
     IN  /\ m \in 1..12
         /\ d \in 1..DaysInMonth(y, m)
         /\ DaysFromCivil(y, m, d) = dayNo

\* iso is the first ten characters, -YYYYYY-MM, of the date text of a day
\* before the year 0 with the number dayNo
IsEarlyDateOf(iso, dayNo) ==
  /\ Len(iso) = 10
  /\ iso[1] = "-" /\ iso[8] = "-"
  /\ AllDigits(SubSeq(iso, 2, 7)) /\ AllDigits(SubSeq(iso, 9, 10))
  /\ LET y == 0 - DigitsValue(SubSeq(iso, 2, 7))
         m == DigitsValue(SubSeq(iso, 9, 10))
     IN  /\ m \in 1..12
         /\ dayNo \in DaysFromCivil(y, m, 1)..DaysFromCivil(y, m, DaysInMonth(y, m))

\* the first day of the year 0
YearZero == DaysFromCivil(0, 1, 1)

CountOf(v) == IF v.t = "num" THEN v.n ELSE 0

\* the number v is the fraction a / b, b being positive
IsFraction(v, a, b) == v.t = "num" /\ v.n * b = a * v.d

\* C20: for every record, if plays > 0 then engagement_rate_pct is
\* (likes + reposts + comments) / plays * 100 and like_pct is
\* likes / plays * 100, an absent count counting as 0; otherwise both are
\* 0; and plays_zero_for_rates is in quality.invalid_fields if and only if
\* showQuality is true and plays is not greater than 0.
C20_RateMetrics ==
  \A k \in 1..Len(Runs) : \A i \in 1..Len(Runs[k].out.rows) :
    LET r == Runs[k].out.rows[i]
        positive == r.plays.t = "num" /\ r.plays.n > 0
    IN  /\ IF positive
           THEN /\ IsFraction(r.engagement_rate_pct,
                              (CountOf(r.likes) + CountOf(r.reposts) + CountOf(r.comments)) * 100,
                              r.plays.n)
                /\ IsFraction(r.like_pct, CountOf(r.likes) * 100, r.plays.n)
           ELSE r.engagement_rate_pct = Num(0) /\ r.like_pct = Num(0)
        /\ Flagged(r, "plays_zero_for_rates") <=> (options.showQuality /\ ~positive)

\* a file was loaded with showQuality that has a record with plays above 0,
\* reposts above 0 and a rate above its like share, and a record with
\* plays not above 0, rates of 0 and the flag
C20_Witness ==
  /\ pc = "loaded"
  /\ options.showQuality
  /\ \E i \in 1..Len(dataset.rows) :
       /\ Gt(dataset.rows[i].plays, Num(0))
       /\ Gt(dataset.rows[i].reposts, Num(0))
       /\ Gt(dataset.rows[i].engagement_rate_pct, dataset.rows[i].like_pct)
  /\ \E i \in 1..Len(dataset.rows) :
       /\ ~Gt(dataset.rows[i].plays, Num(0))
       /\ dataset.rows[i].engagement_rate_pct = Num(0)
       /\ Flagged(dataset.rows[i], "plays_zero_for_rates")

\* a call of processDataRows has returned its Dataset
ProcessDone == call.fn = "processDataRows" /\ call.done

\* the records of a Dataset whose play_like_ratio is a finite number
FiniteAt(d) == { i \in 1..Len(d.rows) : d.rows[i].play_like_ratio.t = "num" }

\* the fraction x is below, or not above, the fraction y
Below(x, y) == x.n * y.d < y.n * x.d
NotAbove(x, y) == x.n * y.d <= y.n * x.d

\* the k-th smallest finite ratio of the Dataset d, counted from 1
OrderStat(d, k) ==
  LET ratio(i) == d.rows[i].play_like_ratio
      i == CHOOSE j \in FiniteAt(d) :
             /\ Cardinality({ h \in FiniteAt(d) : Below(ratio(h), ratio(j)) }) < k
             /\ k <= Cardinality({ h \in FiniteAt(d) : NotAbove(ratio(h), ratio(j)) })
  IN  ratio(i)

\* v is the quartile q (1, 2 or 3) of the finite ratios of d: with
\* idx = q / 4 * (n - 1), the value at floor(idx) plus the step to the value
\* at ceil(idx) times the fraction of idx
IsQuartile(v, d, q) ==
  LET n == Cardinality(FiniteAt(d))
      idx4 == q * (n - 1)
      lo == idx4 \div 4
      part4 == idx4 % 4
      hi == IF part4 = 0 THEN lo ELSE lo + 1
      x == OrderStat(d, lo + 1)
      y == OrderStat(d, hi + 1)
  IN  IsFraction(v, x.n * y.d * 4 + (y.n * x.d - x.n * y.d) * part4, x.d * y.d * 4)

\* C21: Q1, Q2 and Q3 are the linear-interpolation quantiles for p = 0.25,
\* 0.5 and 0.75 of the finite play_like_ratio values of the records sorted
\* ascending, absent and infinite ratios left out, and all three are absent
\* if and only if no record has a finite ratio.
C21_QuartileThresholds ==
  ProcessDone
  => LET d == call.result
     IN  IF FiniteAt(d) = { }
         THEN d.thresholds = [Q1 |-> Null, Q2 |-> Null, Q3 |-> Null]
         ELSE /\ IsQuartile(d.thresholds.Q1, d, 1)
              /\ IsQuartile(d.thresholds.Q2, d, 2)
              /\ IsQuartile(d.thresholds.Q3, d, 3)

\* four records, one with an infinite ratio and, out of order, the ratios
\* 3, 1/2 and 1, give the thresholds 3/4, 1 and 2
C21_Witness ==
  /\ ProcessDone
  /\ Len(call.result.rows) = 4
  /\ \E i \in 1..4 : call.result.rows[i].play_like_ratio = Infinity
  /\ \E i \in 1..3 : /\ call.result.rows[i].play_like_ratio = Num(3)
                     /\ call.result.rows[i + 1].play_like_ratio = Rat(1, 2)
  /\ call.result.thresholds = [Q1 |-> Rat(3, 4), Q2 |-> Num(1), Q3 |-> Num(2)]

\* the sum of the integers f(1), ..., f(n)
RECURSIVE SumTo(_, _)
SumTo(f, n) == IF n = 0 THEN 0 ELSE SumTo(f, n - 1) + f[n]

\* the sum of the fractions e[1], ..., e[n] as a pair of numerator and
\* denominator
RECURSIVE FractionSum(_, _)
FractionSum(e, n) ==
  IF n = 0 THEN << 0, 1 >>
  ELSE LET rest == FractionSum(e, n - 1)
       IN  << rest[1] * e[n].d + e[n].n * rest[2], rest[2] * e[n].d >>

\* C22: each of totals.plays, totals.likes, totals.reposts and
\* totals.comments is the sum of that field over the records of the
\* Dataset, an absent count counting as 0 and dropped rows not counting,
\* and avgEngagement is the arithmetic mean of engagement_rate_pct over the
\* records, or 0 when there are none.
C22_Aggregates ==
  ProcessDone
  => LET d == call.result
         n == Len(d.rows)
         total == FractionSum([i \in 1..n |-> d.rows[i].engagement_rate_pct], n)
     IN  /\ d.totals.plays = Num(SumTo([i \in 1..n |-> CountOf(d.rows[i].plays)], n))
         /\ d.totals.likes = Num(SumTo([i \in 1..n |-> CountOf(d.rows[i].likes)], n))
         /\ d.totals.reposts = Num(SumTo([i \in 1..n |-> CountOf(d.rows[i].reposts)], n))
         /\ d.totals.comments = Num(SumTo([i \in 1..n |-> CountOf(d.rows[i].comments)], n))
         /\ \A i \in 1..n : d.rows[i].engagement_rate_pct.t = "num"
         /\ IF n = 0 THEN d.avgEngagement = Num(0)
            ELSE IsFraction(d.avgEngagement, total[1], total[2] * n)

\* four rows, one of them without a title and so dropped, gave three
\* records with different rates; the totals are those of the three records
C22_Witness ==
  /\ ProcessDone
  /\ Len(call.args[1]) = 4
  /\ \E i \in 1..4 : call.args[1][i][1] = << >>
  /\ Len(call.result.rows) = 3
  /\ call.result.rows[1].engagement_rate_pct # call.result.rows[2].engagement_rate_pct
  /\ call.result.rows[2].engagement_rate_pct # call.result.rows[3].engagement_rate_pct
  /\ Gt(call.result.totals.comments, Num(0))
  /\ Lt(call.result.totals.comments, Num(5))
  /\ Gt(call.result.avgEngagement, Num(0))

\* C23: medianPLR is the median of the finite play_like_ratio values of
\* the records, the middle value for an odd count and the average of the
\* two middle values for an even count, absent and infinite ratios left
\* out, and it is absent when no record has a finite ratio.
C23_MedianRatio ==
  ProcessDone
  => LET d == call.result
         n == Cardinality(FiniteAt(d))
         x == OrderStat(d, n \div 2)
         y == OrderStat(d, n \div 2 + 1)
     IN  IF n = 0 THEN d.medianPLR = Null
         ELSE IF n % 2 = 1 THEN d.medianPLR = y
         ELSE IsFraction(d.medianPLR, x.n * y.d + y.n * x.d, 2 * x.d * y.d)

\* the ratios 3, 1/2, 3 and 1 in this order have the median 2, and with
\* an absent ratio in place of the last the median 3
C23_Witness ==
  /\ ProcessDone
  /\ Len(call.result.rows) = 4
  /\ call.result.rows[1].play_like_ratio = Num(3)
  /\ call.result.rows[2].play_like_ratio = Rat(1, 2)
  /\ call.result.rows[3].play_like_ratio = Num(3)
  /\ \/ call.result.rows[4].play_like_ratio = Num(1) /\ call.result.medianPLR = Num(2)
     \/ call.result.rows[4].play_like_ratio = Null /\ call.result.medianPLR = Num(3)

\* a file has been written by toCSV
Exported == pc \in {"exported", "reloaded"}

\* the text without its carriage returns
RECURSIVE WithoutCR(_)
WithoutCR(s) ==
  IF s = << >> THEN << >>
  ELSE (IF Head(s) = "\r" THEN << >> ELSE << Head(s) >>) \o WithoutCR(Tail(s))

\* C24: the output of toCSV, tokenized, is the header row of 12 columns
\* and then one row of 12 fields for each record, in the order of the
\* records of the Dataset, also for a Dataset without records and for
\* titles with commas, quotes or newlines.
C24_SerializerLayout ==
  Exported
  => LET rows == parseCSV(csv)
         n == Len(dataset.rows)
     IN  /\ Len(rows) = n + 1
         /\ rows[1] = ExportHeader
         /\ Len(ExportHeader) = 12
         /\ \A i \in 1..n :
              /\ Len(rows[i + 1]) = 12
              /\ WithoutCR(rows[i + 1][1]) = WithoutCR(dataset.rows[i].title)
              /\ rows[i + 1][4] = valueOrEmpty(dataset.rows[i].plays)
              /\ rows[i + 1][12] = CategoryText(dataset.rows[i].category)

\* a Dataset of two records was written whose first title holds a comma,
\* a quote and a newline and whose second does not
C24_Witness ==
  /\ pc = "exported"
  /\ Len(dataset.rows) = 2
  /\ dataset.rows[1].title = << "a", ",", "\"", "\n", "b" >>
  /\ dataset.rows[2].title = << "a" >>
  /\ dataset.rows[1].plays # dataset.rows[2].plays

\* s is a number written with exactly two decimal places
TwoDecimals(s) ==
  LET body == IF s # << >> /\ s[1] = "-" THEN Tail(s) ELSE s
      k == Len(body)
  IN  /\ k >= 4
      /\ body[k - 2] = "."
      /\ \A i \in (1..k) \ { k - 2 } : IsDigit(body[i])

\* C25 as stated: the PLAY_LIKE_RATIO cell is empty whenever the ratio is
\* absent or infinite and is never the text Infinity; the cells of
\* ENGAGEMENT_RATE_PCT, LIKE_PCT and PLAYS_PER_DAY have exactly two decimal
\* places when the value is finite and are empty otherwise.
C25_NumericCells ==
  /\ (call.fn = "finiteOrEmpty" /\ call.done)
     => /\ call.args[1] \in { Null, Infinity } => call.result = << >>
        /\ call.result # << "I", "n", "f", "i", "n", "i", "t", "y" >>
  /\ (call.fn = "round2" /\ call.done)
     => IF call.args[1].t \in { "null", "inf", "nan" }
        THEN call.result = << >>
        ELSE TwoDecimals(call.result)

\* the closures of the page
Closures == { "one", "two" }

\* the load of closure c ends in this step with parseAndProcessCSV throwing
LoadFails(c) ==
  /\ app.reads[c] # << >>
  /\ app'.reads[c] = << >>
  /\ parseAndProcessCSV(FileText(app.reads[c][1]), options, now).error # "none"

\* C26: when parseAndProcessCSV throws while a picked file is loaded, the
\* handler reports the error (one alert) and the datasets, the current rows
\* and the sort state of both closures, the rows in the table, the header
\* wiring, the export button and the downloads are what they were before,
\* whatever loads succeeded earlier
C26_FailedLoadLeavesState ==
  [][ \A c \in Closures :
        LoadFails(c) =>
          /\ app'.alerts = app.alerts + 1
          /\ app'.one = app.one
          /\ app'.two = app.two
          /\ app'.table = app.table
          /\ app'.onclick = app.onclick
          /\ app'.exportDisabled = app.exportDisabled
          /\ app'.download = app.download ]_vars

\* a second pick, of a file that cannot be parsed, after a first file was
\* loaded and is shown: closure one has reported its failure, the read of
\* closure two is still in flight
C26_Witness ==
  /\ app.reads.one = << >>
  /\ app.reads.two # << >>
  /\ parseAndProcessCSV(FileText(app.reads.two[1]), options, now).error # "none"
  /\ app.alerts = 1
  /\ app.one.dataset # << >>
  /\ app.two.datasets # << >>
  /\ app.table # << >>

\* the records parseAndProcessCSV made of the file a dataset was loaded from
LoadedRows(ds) == parseAndProcessCSV(FileText(ds.name), options, now).rows

\* rows holds the records of loaded, in their order, with every field of
\* theirs (it may hold the name and colour of the dataset besides)
SameRecords(rows, loaded) ==
  /\ Len(rows) = Len(loaded)
  /\ \A j \in 1..Len(loaded) :
       \A k \in DOMAIN loaded[j] :
         k \in DOMAIN rows[j] /\ rows[j][k] = loaded[j][k]

\* the records of the visible datasets as they were loaded, dataset after
\* dataset
RECURSIVE LoadedVisibleRows(_)
LoadedVisibleRows(datasets) ==
  IF datasets = << >> THEN << >>
  ELSE (IF Head(datasets).visible THEN LoadedRows(Head(datasets)) ELSE << >>)
       \o LoadedVisibleRows(Tail(datasets))

\* C27: whatever header clicks, searches and visibility toggles were made,
\* every loaded dataset holds the records of its load in their order and
\* with every computed field as it was, in closure two and in closure one;
\* and an export writes the records of the visible datasets in that order
C27_DatasetsImmutable ==
  /\ [](/\ \A i \in 1..Len(app.two.datasets) :
            SameRecords(app.two.datasets[i].data.rows,
                        LoadedRows(app.two.datasets[i]))
        /\ \A i \in 1..Len(app.one.dataset) :
            \E f \in AppFiles :
              app.one.dataset[i].rows =
                parseAndProcessCSV(f.text, options, now).rows)
  /\ [][ app'.download.two # app.download.two =>
          app'.download.two =
            toCSV([rows |-> LoadedVisibleRows(app.two.datasets)]) ]_vars

\* a file was loaded and exported, and the table shows its records
\* filtered by a search or in another order than that of the file
C27_Witness ==
  /\ Len(app.two.datasets) = 1
  /\ app.two.datasets[1].visible
  /\ app.download.two # << >>
  /\ app.onclick = "two"
  /\ app.table # << >>
  /\ \/ Len(app.table) < Len(app.two.datasets[1].data.rows)
     \/ app.table[1].title # app.two.datasets[1].data.rows[1].title

\* the statistics of a sequence of ratios have been computed
RatiosDone == call.fn = "ratioStatistics" /\ call.done

\* the thresholds are in ascending order and none is negative
ThresholdsAscend(th) ==
  /\ Le(Num(0), th.Q1)
  /\ Le(th.Q1, th.Q2)
  /\ Le(th.Q2, th.Q3)

\* C28 as stated: with at least one finite ratio, 0 <= Q1 <= Q2 <= Q3 and Q2
\* equals medianPLR
C28_ThresholdsAndMedian ==
  (RatiosDone /\ FilterFinite(call.args[1]) # << >>)
  => /\ ThresholdsAscend(call.result.thresholds)
     /\ call.result.thresholds.Q2 = call.result.medianPLR

\* C28 amended: with at least one finite ratio, 0 <= Q1 <= Q2 <= Q3, and Q2
\* equals medianPLR when the number of finite ratios is odd
C28_ThresholdsAndOddMedian ==
  (RatiosDone /\ FilterFinite(call.args[1]) # << >>)
  => /\ ThresholdsAscend(call.result.thresholds)
     /\ Len(FilterFinite(call.args[1])) % 2 = 1
        => call.result.thresholds.Q2 = call.result.medianPLR

\* the ratios 2^53 + 2, 1 and 3: three different thresholds, of which Q3 is
\* interpolated and rounded, and Q2 is medianPLR, 3
C28_Witness ==
  /\ RatiosDone
  /\ call.args[1] = << Dbl(2^28, 16), Dbl(0, 8), Dbl(0, 24) >>
  /\ call.result.thresholds.Q1 = Dbl(0, 16)
  /\ call.result.thresholds.Q2 = Dbl(0, 24)
  /\ call.result.thresholds.Q3 = Dbl(2^27, 16)
  /\ call.result.medianPLR = Dbl(0, 24)

\* the records of the Dataset d whose finite ratio is the smallest
SmallestAt(d) ==
  { i \in FiniteAt(d) :
      \A j \in FiniteAt(d) :
        NotAbove(d.rows[i].play_like_ratio, d.rows[j].play_like_ratio) }

\* C29: in every Dataset processDataRows returns, no record is Average for
\* want of thresholds: if the thresholds are absent no record has a finite
\* ratio and every record is Poor, and if they are present there is a record
\* with a finite ratio and every record with the smallest finite ratio is
\* Excellent
C29_NeverAverageForWantOfThresholds ==
  ProcessDone
  => LET d == call.result
     IN  IF d.thresholds.Q1 = Null
         THEN /\ FiniteAt(d) = { }
              /\ \A i \in 1..Len(d.rows) : d.rows[i].category = "Poor"
         ELSE /\ SmallestAt(d) # { }
              /\ \A i \in SmallestAt(d) : d.rows[i].category = "Excellent"

\* thresholds present: of three records the one with the smallest finite
\* ratio is Excellent, one with a larger ratio is not, and one with an
\* infinite ratio is Poor
C29_Witness ==
  /\ ProcessDone
  /\ Len(call.result.rows) = 3
  /\ call.result.thresholds.Q1 # Null
  /\ \E i, j, k \in 1..3 :
       /\ i \in SmallestAt(call.result)
       /\ call.result.rows[i].category = "Excellent"
       /\ j \in FiniteAt(call.result) \ SmallestAt(call.result)
       /\ call.result.rows[j].category # "Excellent"
       /\ call.result.rows[k].play_like_ratio = Infinity
       /\ call.result.rows[k].category = "Poor"

\* the record r without the name and colour of its dataset
Untagged(r) == [k \in DOMAIN r \ { "datasetName", "datasetColor" } |-> r[k]]

\* how many of the rows are the record r
TimesIn(rows, r) ==
  Cardinality({ i \in 1..Len(rows) : Untagged(rows[i]) = Untagged(r) })

\* the records of the visible datasets whose title contains the text of the
\* search box, whatever the case of the letters
RowsToShow ==
  LET visible == VisibleRows(app.two.datasets)
      found(i) == Includes(ToLowerCase(visible[i].title), ToLowerCase(app.search))
  IN  [i \in { j \in 1..Len(visible) : found(j) } |-> visible[i]]

\* C30: when only successful loads, toggles and completed searches have
\* been made and the page is at rest, every one of the loads has appended
\* one dataset, and the table shows exactly the records of the visible
\* datasets whose title contains the search text case-insensitively, each
\* as often as it occurs among them
C30_ViewConsistency ==
  (AtRest /\ app.alerts = 0)
  => /\ Len(app.two.datasets) = app.picks
     /\ Len(app.table) = Cardinality(DOMAIN RowsToShow)
     /\ \A i \in DOMAIN RowsToShow :
          TimesIn(app.table, RowsToShow[i])
            = Cardinality({ j \in DOMAIN RowsToShow :
                              Untagged(RowsToShow[j]) = Untagged(RowsToShow[i]) })

====
